---------------------------- MODULE Spec2Model ----------------------------
(***************************************************************************)
(* Company statistics store of the internship fraud detector.              *)
(*                                                                         *)
(* db_update.py: name standardisation, identity resolution against the     *)
(* company_stats collection, and the read-modify-write merge of one        *)
(* observation (update_company_stats).                                     *)
(*                                                                         *)
(* Python strings are modelled as sequences of one-character strings, so   *)
(* that strip(), lower(), title(), split() and the regular expressions act *)
(* on characters as the code does.  A Python value is a record             *)
(* [t |-> type name, v |-> payload]; the payload of a str is its           *)
(* characters, of an int its decimal digits, of a list its elements.       *)
(* fraud_percentage is kept in hundredths of a percent (2000 is 20.0).     *)
(***************************************************************************)
EXTENDS Integers, Sequences, FiniteSets, TLC

(***************************************************************************)
(* Bounds of the model.                                                    *)
(***************************************************************************)
\* calls of update_company_stats started in one behaviour
MaxCalls == 3

\* documents in a record set given to the aggregations
MaxRecords == 4

\* blocks in the verification chain
MaxBlocks == 3

(***************************************************************************)
(* Python values and strings.                                              *)
(***************************************************************************)
PyStr(s) == [t |-> "str", v |-> s]
PyNone == [t |-> "NoneType", v |-> <<>>]
PyInt(digits) == [t |-> "int", v |-> digits]
PyList(xs) == [t |-> "list", v |-> xs]

\* bool(x): None, "", [] and 0 are false
Truthy(x) ==
  CASE x.t = "NoneType" -> FALSE
    [] x.t = "int" -> x.v # <<"0">>
    [] OTHER -> x.v # <<>>

\* str(x)
StrOf(x) ==
  CASE x.t = "NoneType" -> <<"N", "o", "n", "e">>
    [] OTHER -> x.v

UpperLetters ==
  <<"A", "B", "C", "D", "E", "F", "G", "H", "I", "J", "K", "L", "M",
    "N", "O", "P", "Q", "R", "S", "T", "U", "V", "W", "X", "Y", "Z">>

LowerLetters ==
  <<"a", "b", "c", "d", "e", "f", "g", "h", "i", "j", "k", "l", "m",
    "n", "o", "p", "q", "r", "s", "t", "u", "v", "w", "x", "y", "z">>

Digits == {"0", "1", "2", "3", "4", "5", "6", "7", "8", "9"}

IsSpace(c) == c \in {" ", "\t"}

UpperSet == {UpperLetters[i] : i \in 1..26}
LowerSet == {LowerLetters[i] : i \in 1..26}
ToLower == [c \in UpperSet |-> LowerLetters[CHOOSE i \in 1..26 : UpperLetters[i] = c]]
ToUpper == [c \in LowerSet |-> UpperLetters[CHOOSE i \in 1..26 : LowerLetters[i] = c]]

IsUpper(c) == c \in UpperSet
IsLower(c) == c \in LowerSet
IsCased(c) == IsUpper(c) \/ IsLower(c)

LowerChar(c) == IF c \in UpperSet THEN ToLower[c] ELSE c
UpperChar(c) == IF c \in LowerSet THEN ToUpper[c] ELSE c

\* str.lower(), str.upper()
Lower(s) == [i \in 1..Len(s) |-> LowerChar(s[i])]
Upper(s) == [i \in 1..Len(s) |-> UpperChar(s[i])]

\* str.title(): a cased character is upper-cased after an uncased one (or at
\* the start) and lower-cased after a cased one
Title(s) ==
  [i \in 1..Len(s) |->
     IF i > 1 /\ IsCased(s[i - 1]) THEN LowerChar(s[i]) ELSE UpperChar(s[i])]

RECURSIVE LStrip(_)
LStrip(s) == IF s # <<>> /\ IsSpace(Head(s)) THEN LStrip(Tail(s)) ELSE s

RECURSIVE RStrip(_)
RStrip(s) ==
  IF s # <<>> /\ IsSpace(s[Len(s)]) THEN RStrip(SubSeq(s, 1, Len(s) - 1)) ELSE s

\* str.strip()
Strip(s) == LStrip(RStrip(s))

\* str.startswith(prefix)
StartsWith(s, prefix) ==
  Len(s) >= Len(prefix) /\ SubSeq(s, 1, Len(prefix)) = prefix

\* needle in s
Contains(s, needle) ==
  \E i \in 1..(Len(s) - Len(needle) + 1) :
     SubSeq(s, i, i + Len(needle) - 1) = needle

\* str.split(): the maximal runs of non-whitespace characters, in order
RECURSIVE SplitFrom(_, _, _)
SplitFrom(s, i, word) ==
  IF i > Len(s)
    THEN IF word = <<>> THEN <<>> ELSE <<word>>
    ELSE IF IsSpace(s[i])
           THEN IF word = <<>>
                  THEN SplitFrom(s, i + 1, <<>>)
                  ELSE <<word>> \o SplitFrom(s, i + 1, <<>>)
           ELSE SplitFrom(s, i + 1, Append(word, s[i]))

Split(s) == SplitFrom(s, 1, <<>>)

\* " ".join(parts)
RECURSIVE JoinSpace(_)
JoinSpace(parts) ==
  IF parts = <<>> THEN <<>>
  ELSE IF Len(parts) = 1 THEN parts[1]
  ELSE parts[1] \o <<" ">> \o JoinSpace(Tail(parts))

(***************************************************************************)
(* The regular expressions of _standardize_company_name.  A pattern is a   *)
(* sequence of elements: [k |-> "lit", c] one character (compared without  *)
(* case), [k |-> "opt", c] the character or nothing (c?), [k |-> "ws+"]    *)
(* one or more and [k |-> "ws*"] zero or more whitespace characters,       *)
(* [k |-> "set+", cs] one or more characters of cs.  Every pattern of the  *)
(* code ends with $.                                                       *)
(***************************************************************************)
Lit(c) == [k |-> "lit", c |-> c, cs |-> {}]
Opt(c) == [k |-> "opt", c |-> c, cs |-> {}]
WsPlus == [k |-> "ws+", c |-> "", cs |-> {}]
WsStar == [k |-> "ws*", c |-> "", cs |-> {}]
SetPlus(cs) == [k |-> "set+", c |-> "", cs |-> cs]

Word(w) == [i \in 1..Len(w) |-> Lit(w[i])]

\* s[i..] matches pat[j..] up to the end of s
RECURSIVE MatchAt(_, _, _, _)
MatchAt(s, i, pat, j) ==
  IF j > Len(pat) THEN i > Len(s)
  ELSE LET e == pat[j] IN
    CASE e.k = "lit" ->
           i <= Len(s) /\ LowerChar(s[i]) = LowerChar(e.c) /\ MatchAt(s, i + 1, pat, j + 1)
      [] e.k = "opt" ->
           \/ i <= Len(s) /\ LowerChar(s[i]) = LowerChar(e.c) /\ MatchAt(s, i + 1, pat, j + 1)
           \/ MatchAt(s, i, pat, j + 1)
      [] e.k = "ws+" ->
           i <= Len(s) /\ IsSpace(s[i])
             /\ (MatchAt(s, i + 1, pat, j) \/ MatchAt(s, i + 1, pat, j + 1))
      [] e.k = "ws*" ->
           \/ i <= Len(s) /\ IsSpace(s[i]) /\ MatchAt(s, i + 1, pat, j)
           \/ MatchAt(s, i, pat, j + 1)
      [] e.k = "set+" ->
           i <= Len(s) /\ s[i] \in e.cs
             /\ (MatchAt(s, i + 1, pat, j) \/ MatchAt(s, i + 1, pat, j + 1))

\* re.sub(pat + "$", "", s, flags=re.IGNORECASE): the leftmost match runs to
\* the end of s and is removed
ReSubEnd(pat, s) ==
  LET starts == {i \in 1..Len(s) : MatchAt(s, i, pat, 1)}
  IN IF starts = {} THEN s
     ELSE SubSeq(s, 1, (CHOOSE i \in starts : \A k \in starts : i <= k) - 1)


(***************************************************************************)
(* _standardize_company_name                                               *)
(***************************************************************************)
Unknown == <<"u", "n", "k", "n", "o", "w", "n">>

invalid_names ==
  { <<"c", "o", "m", "p", "a", "n", "y">>,
    <<"t", "h", "e", " ", "c", "o", "m", "p", "a", "n", "y">>,
    <<"t", "h", "i", "s", " ", "c", "o", "m", "p", "a", "n", "y">>,
    <<"o", "u", "r", " ", "c", "o", "m", "p", "a", "n", "y">>,
    <<"o", "r", "g", "a", "n", "i", "z", "a", "t", "i", "o", "n">>,
    <<"t", "h", "e", " ", "o", "r", "g", "a", "n", "i", "z", "a", "t", "i", "o", "n">>,
    <<"f", "i", "r", "m">>,
    <<"t", "h", "e", " ", "f", "i", "r", "m">>,
    <<"e", "m", "p", "l", "o", "y", "e", "r">>,
    <<"t", "h", "e", " ", "e", "m", "p", "l", "o", "y", "e", "r">>,
    <<"h", "i", "r", "i", "n", "g", " ", "c", "o", "m", "p", "a", "n", "y">>,
    <<"a", " ", "c", "o", "m", "p", "a", "n", "y">>,
    <<"y", "o", "u", "r", " ", "c", "o", "m", "p", "a", "n", "y">>,
    <<"u", "n", "k", "n", "o", "w", "n">>,
    <<"n", "/", "a">>,
    <<"n", "a">> }

\* legal_patterns, in the order the code applies them
legal_patterns ==
  << \* \s+pvt\.?\s*ltd\.?$
     <<WsPlus>> \o Word(<<"p", "v", "t">>) \o <<Opt("."), WsStar>> \o Word(<<"l", "t", "d">>) \o <<Opt(".")>>,
     \* \s+private\s+limited$
     <<WsPlus>> \o Word(<<"p", "r", "i", "v", "a", "t", "e">>) \o <<WsPlus>> \o Word(<<"l", "i", "m", "i", "t", "e", "d">>),
     \* \s+llc$
     <<WsPlus>> \o Word(<<"l", "l", "c">>),
     \* \s+inc\.?$
     <<WsPlus>> \o Word(<<"i", "n", "c">>) \o <<Opt(".")>>,
     \* \s+ltd\.?$
     <<WsPlus>> \o Word(<<"l", "t", "d">>) \o <<Opt(".")>>,
     \* \s+co\.?$
     <<WsPlus>> \o Word(<<"c", "o">>) \o <<Opt(".")>>,
     \* \s+corporation$
     <<WsPlus>> \o Word(<<"c", "o", "r", "p", "o", "r", "a", "t", "i", "o", "n">>),
     \* \s+corp\.?$
     <<WsPlus>> \o Word(<<"c", "o", "r", "p">>) \o <<Opt(".")>>,
     \* \s+limited$
     <<WsPlus>> \o Word(<<"l", "i", "m", "i", "t", "e", "d">>) >>

\* for pattern in legal_patterns: name = re.sub(pattern, '', name).strip()
RECURSIVE StripLegal(_, _)
StripLegal(name, k) ==
  IF k > Len(legal_patterns) THEN name
  ELSE StripLegal(Strip(ReSubEnd(legal_patterns[k], name)), k + 1)

\* re.sub(r'[\-\|,:;.]+$', '', name).strip()
StripTrailingPunct(name) ==
  Strip(ReSubEnd(<<SetPlus({"-", "|", ",", ":", ";", "."})>>, name))

\* a cut that keeps one word more
LimitWordsFive(name) ==
  LET parts == Split(name)
  IN IF Len(parts) > 5 THEN JoinSpace(SubSeq(parts, 1, 5)) ELSE name

\* parts = name.split(); more than 4 words are cut to the first 4
LimitWords(name) ==
  LET parts == Split(name)
  IN IF Len(parts) > 4 THEN JoinSpace(SubSeq(parts, 1, 4)) ELSE name

StandardizeCompanyName(name) ==
  IF ~Truthy(name) \/ name.t # "str" THEN Unknown
  ELSE LET stripped == Strip(name.v) IN
    IF Lower(stripped) \in invalid_names THEN Unknown
    ELSE LET cleaned == Title(LimitWords(StripTrailingPunct(StripLegal(stripped, 1)))) IN
      IF cleaned = <<>> \/ Lower(cleaned) \in invalid_names THEN Unknown
      ELSE cleaned

(***************************************************************************)
(* _normalize_for_matching: lower-case, then drop every character that is  *)
(* not in [a-z0-9]                                                         *)
(***************************************************************************)
RECURSIVE KeepAlnum(_)
KeepAlnum(s) ==
  IF s = <<>> THEN <<>>
  ELSE IF IsLower(Head(s)) \/ Head(s) \in Digits
         THEN <<Head(s)>> \o KeepAlnum(Tail(s))
         ELSE KeepAlnum(Tail(s))

NormalizeForMatching(name) == IF name = <<>> THEN <<>> ELSE KeepAlnum(Lower(name))

(***************************************************************************)
(* _normalize_location                                                     *)
(***************************************************************************)
remote_keywords ==
  { <<"r", "e", "m", "o", "t", "e">>,
    <<"v", "i", "r", "t", "u", "a", "l">>,
    <<"o", "n", "l", "i", "n", "e">>,
    <<"w", "o", "r", "k", " ", "f", "r", "o", "m", " ", "h", "o", "m", "e">>,
    <<"w", "f", "h">> }

\* a classifier that looks for "hybrid" before the remote keywords
NormalizeLocationHybridFirst(raw) ==
  IF ~Truthy(raw) \/ raw.t # "str" THEN Unknown
  ELSE LET loc == Strip(raw.v)
           loc_lower == Lower(loc)
       IN IF loc \in {<<"R", "e", "m", "o", "t", "e">>, <<"H", "y", "b", "r", "i", "d">>} THEN loc
          ELSE IF Contains(loc_lower, <<"h", "y", "b", "r", "i", "d">>) THEN <<"H", "y", "b", "r", "i", "d">>
          ELSE IF \E keyword \in remote_keywords : Contains(loc_lower, keyword)
                 THEN <<"R", "e", "m", "o", "t", "e">>
          ELSE loc

NormalizeLocation(raw) ==
  IF ~Truthy(raw) \/ raw.t # "str" THEN Unknown
  ELSE LET loc == Strip(raw.v)
           loc_lower == Lower(loc)
       IN IF loc \in {<<"R", "e", "m", "o", "t", "e">>, <<"H", "y", "b", "r", "i", "d">>} THEN loc
          ELSE IF \E keyword \in remote_keywords : Contains(loc_lower, keyword)
                 THEN <<"R", "e", "m", "o", "t", "e">>
          ELSE IF Contains(loc_lower, <<"h", "y", "b", "r", "i", "d">>) THEN <<"H", "y", "b", "r", "i", "d">>
          ELSE loc


(***************************************************************************)
(* _choose_company_website                                                 *)
(***************************************************************************)
\* Counter(websites): the distinct values with their counts, in first-seen
\* order (a Counter is a dict, which keeps insertion order)
RECURSIVE CounterOf(_, _)
CounterOf(ws, acc) ==
  IF ws = <<>> THEN acc
  ELSE LET w == Head(ws) IN
    IF \E i \in 1..Len(acc) : acc[i].key = w
      THEN CounterOf(Tail(ws),
             [i \in 1..Len(acc) |->
                IF acc[i].key = w THEN [key |-> w, n |-> acc[i].n + 1] ELSE acc[i]])
      ELSE CounterOf(Tail(ws), Append(acc, [key |-> w, n |-> 1]))
\* a maximum that keeps the last of several maxima
RECURSIVE MaxLast(_, _, _)
MaxLast(items, i, best) ==
  IF i > Len(items) THEN best
  ELSE MaxLast(items, i + 1, IF items[i].n >= best.n THEN items[i] ELSE best)

\* most_common(1)[0][0]: heapq.nlargest(1, items, key=count) is max(items,
\* key=count), which keeps the first of several maxima
RECURSIVE MaxFirst(_, _, _)
MaxFirst(items, i, best) ==
  IF i > Len(items) THEN best
  ELSE MaxFirst(items, i + 1, IF items[i].n > best.n THEN items[i] ELSE best)

MostCommon(ws) == MaxFirst(CounterOf(ws, <<>>), 2, CounterOf(ws, <<>>)[1]).key

\* the filter of the list comprehension: e.get("website") and
\* str(e.get("website")).strip().lower() != "unknown"
IsKnownWebsite(w) == w # <<>> /\ Lower(Strip(w)) # Unknown

RECURSIVE KnownWebsites(_)
KnownWebsites(entries) ==
  IF entries = <<>> THEN <<>>
  ELSE IF IsKnownWebsite(Head(entries).website)
         THEN <<Strip(Head(entries).website)>> \o KnownWebsites(Tail(entries))
         ELSE KnownWebsites(Tail(entries))

ChooseCompanyWebsite(real_entries) ==
  LET websites == KnownWebsites(real_entries)
  IN IF websites = <<>> THEN Unknown ELSE MostCommon(websites)

(***************************************************************************)
(* _find_existing_company against the documents of company_collection,     *)
(* held in their natural (insertion) order.  The result of a lookup is a   *)
(* sequence of zero or one documents.                                      *)
(***************************************************************************)
\* dict.get(field, default)
Get(doc, field, default) == IF field \in DOMAIN doc THEN doc[field] ELSE default

FirstIndex(S) == CHOOSE i \in S : \A k \in S : i <= k

\* an exact pass without the option "i"
FindOneExactCase(docs, company_name) ==
  LET hits == {i \in 1..Len(docs) : docs[i].company_name = company_name}
  IN IF hits = {} THEN <<>> ELSE <<docs[FirstIndex(hits)]>>

\* find_one({"company_name": {"$regex": "^" + re.escape(name) + "$",
\* "$options": "i"}}): the first document whose name equals name without case
FindOneExact(docs, company_name) ==
  LET hits == {i \in 1..Len(docs) : Lower(docs[i].company_name) = Lower(company_name)}
  IN IF hits = {} THEN <<>> ELSE <<docs[FirstIndex(hits)]>>

\* find({}, {"company_name": 1}): every document, cut to _id and company_name
Projection(docs) ==
  [i \in 1..Len(docs) |-> [_id |-> docs[i]._id, company_name |-> docs[i].company_name]]
\* a fuzzy pass that forgets to normalize the stored name
FirstFuzzyRawName(all_companies, normalized_input) ==
  LET hits == {i \in 1..Len(all_companies) :
                 Lower(Get(all_companies[i], "company_name", <<>>)) = normalized_input}
  IN IF hits = {} THEN <<>> ELSE <<all_companies[FirstIndex(hits)]>>

\* the loop over all_companies: the first document whose normalized name
\* equals the normalized input
FirstFuzzy(all_companies, normalized_input) ==
  LET hits == {i \in 1..Len(all_companies) :
                 NormalizeForMatching(Get(all_companies[i], "company_name", <<>>))
                   = normalized_input}
  IN IF hits = {} THEN <<>> ELSE <<all_companies[FirstIndex(hits)]>>

\* line 87: no lookup for an empty name or "unknown"
NoLookup(company_name) == company_name = <<>> \/ company_name = Unknown

\* line 98: no fuzzy pass when nothing is left of the name
NoFuzzyPass(normalized_input) == normalized_input = <<>>

\* the whole of _find_existing_company on one snapshot of the collection
FindExistingCompany(docs, company_name) ==
  IF NoLookup(company_name) THEN [doc |-> <<>>, match_type |-> "none"]
  ELSE IF FindOneExact(docs, company_name) # <<>>
    THEN [doc |-> FindOneExact(docs, company_name), match_type |-> "exact"]
  ELSE IF NoFuzzyPass(NormalizeForMatching(company_name))
    THEN [doc |-> <<>>, match_type |-> "none"]
  ELSE IF FirstFuzzy(Projection(docs), NormalizeForMatching(company_name)) # <<>>
    THEN [doc |-> FirstFuzzy(Projection(docs), NormalizeForMatching(company_name)),
          match_type |-> "fuzzy"]
  ELSE [doc |-> <<>>, match_type |-> "none"]

(***************************************************************************)
(* update_company_stats: the computation between the lookup and the save   *)
(***************************************************************************)
EmptyInternships == [pattern_matches |-> <<>>, entries |-> <<>>]
\* a skip test that lets the sentinel "unknown" through
SkipUpdateEmptyOnly(name_clean) == name_clean = <<>>

\* line 188: "Don't save if unknown"
SkipUpdate(name_clean) == name_clean = <<>> \/ name_clean = Unknown

\* line 194: (website or "unknown").strip() raises for a value without strip()
WebsiteRaises(website) == Truthy(website) /\ website.t # "str"

WebsiteClean(website) == Strip(IF Truthy(website) THEN website.v ELSE Unknown)

\* lines 198-203
MakeEntry(website, loc_clean, timestamp, confidence) ==
  [website |-> WebsiteClean(website),
   location |-> loc_clean,
   timestamp |-> timestamp,
   confidence_score |-> confidence]
\* a merge that renames the document found to the new spelling
BaseDocRenamed(existing, name_clean) ==
  IF existing # <<>>
    THEN [company_name |-> name_clean,
          company_website |-> Get(existing[1], "company_website", Unknown),
          total_analysis_count |-> Get(existing[1], "total_analysis_count", 0),
          real_count |-> Get(existing[1], "real_count", 0),
          fake_count |-> Get(existing[1], "fake_count", 0),
          fraud_percentage |-> Get(existing[1], "fraud_percentage", 0),
          real_internships |-> Get(existing[1], "real_internships", EmptyInternships),
          fake_internships |-> Get(existing[1], "fake_internships", EmptyInternships)]
    ELSE [company_name |-> name_clean,
          company_website |-> Unknown,
          total_analysis_count |-> 0,
          real_count |-> 0,
          fake_count |-> 0,
          fraud_percentage |-> 0,
          real_internships |-> EmptyInternships,
          fake_internships |-> EmptyInternships]

\* lines 208-233: the document the merge starts from
BaseDoc(existing, name_clean) ==
  IF existing # <<>>
    THEN [company_name |-> Get(existing[1], "company_name", name_clean),
          company_website |-> Get(existing[1], "company_website", Unknown),
          total_analysis_count |-> Get(existing[1], "total_analysis_count", 0),
          real_count |-> Get(existing[1], "real_count", 0),
          fake_count |-> Get(existing[1], "fake_count", 0),
          fraud_percentage |-> Get(existing[1], "fraud_percentage", 0),
          real_internships |-> Get(existing[1], "real_internships", EmptyInternships),
          fake_internships |-> Get(existing[1], "fake_internships", EmptyInternships)]
    ELSE [company_name |-> name_clean,
          company_website |-> Unknown,
          total_analysis_count |-> 0,
          real_count |-> 0,
          fake_count |-> 0,
          fraud_percentage |-> 0,
          real_internships |-> EmptyInternships,
          fake_internships |-> EmptyInternships]

\* str(result).strip().upper().startswith("REAL")
IsReal(result) == StartsWith(Upper(Strip(StrOf(result))), <<"R", "E", "A", "L">>)

\* an append that leaves the counters as they were
AppendEntryOnly(base_doc, entry, result) ==
  IF IsReal(result)
    THEN [base_doc EXCEPT !.real_internships.entries = Append(@, entry)]
    ELSE [base_doc EXCEPT !.fake_internships.entries = Append(@, entry)]

\* lines 236-241
AppendEntry(base_doc, entry, result) ==
  IF IsReal(result)
    THEN [base_doc EXCEPT !.real_internships.entries = Append(@, entry),
                          !.real_count = @ + 1]
    ELSE [base_doc EXCEPT !.fake_internships.entries = Append(@, entry),
                          !.fake_count = @ + 1]
\* a total that forgets the fake postings
TotalCountRealOnly(base_doc) == base_doc.real_count

\* line 243
TotalCount(base_doc) == base_doc.real_count + base_doc.fake_count

\* lines 248-252 and 254-258: append the patterns not yet present
RECURSIVE AddPatterns(_, _)
AddPatterns(pattern_matches, patterns) ==
  IF patterns = <<>> THEN pattern_matches
  ELSE IF \E i \in 1..Len(pattern_matches) : pattern_matches[i] = Head(patterns)
         THEN AddPatterns(pattern_matches, Tail(patterns))
         ELSE AddPatterns(Append(pattern_matches, Head(patterns)), Tail(patterns))

\* lines 246-258
MergePatterns(base_doc, result, patterns) ==
  IF ~Truthy(patterns) THEN base_doc
  ELSE IF IsReal(result)
    THEN [base_doc EXCEPT !.real_internships.pattern_matches = AddPatterns(@, patterns.v)]
    ELSE [base_doc EXCEPT !.fake_internships.pattern_matches = AddPatterns(@, patterns.v)]

\* round(x, 2) of the quotient num/den in hundredths, ties to even: Python
\* rounds the float (fake / total) * 100, which within the counts of this
\* model is never a tie
RoundHalfEven(num, den) ==
  LET q == num \div den
      r == num % den
  IN IF 2 * r < den THEN q
     ELSE IF 2 * r > den THEN q + 1
     ELSE IF q % 2 = 0 THEN q ELSE q + 1
\* a percentage cut to two decimals instead of rounded
FraudPercentageTruncated(fake, total) ==
  IF total # 0 THEN (fake * 10000) \div total ELSE 0

\* line 267: round((fake / total) * 100, 2) if total else 0.0
FraudPercentage(fake, total) ==
  IF total # 0 THEN RoundHalfEven(fake * 10000, total) ELSE 0

\* lines 235-281: the document that is saved
MergedDoc(existing, name_clean, entry, result, patterns) ==
  LET appended == AppendEntry(BaseDoc(existing, name_clean), entry, result)
      counted == [appended EXCEPT !.total_analysis_count = TotalCount(appended)]
      merged == MergePatterns(counted, result, patterns)
      sited == [merged EXCEPT !.company_website =
                  ChooseCompanyWebsite(merged.real_internships.entries)]
  IN [sited EXCEPT !.fraud_percentage =
        FraudPercentage(sited.fake_count, sited.total_analysis_count)]

WithId(doc, id) ==
  [_id |-> id,
   company_name |-> doc.company_name,
   company_website |-> doc.company_website,
   total_analysis_count |-> doc.total_analysis_count,
   real_count |-> doc.real_count,
   fake_count |-> doc.fake_count,
   fraud_percentage |-> doc.fraud_percentage,
   real_internships |-> doc.real_internships,
   fake_internships |-> doc.fake_internships]

\* replace_one({"_id": id}, doc): the first document with that _id is replaced
ReplaceOne(docs, id, doc) ==
  LET hits == {i \in 1..Len(docs) : docs[i]._id = id}
  IN IF hits = {} THEN docs
     ELSE [docs EXCEPT ![FirstIndex(hits)] = WithId(doc, id)]

\* insert_one(doc): the store assigns a fresh _id
InsertOne(docs, doc, fresh_id) == Append(docs, WithId(doc, fresh_id))

\* a save that inserts also when a document was found
SaveAlwaysInsert(docs, existing, doc, fresh_id) == InsertOne(docs, doc, fresh_id)

\* lines 283-289
SaveToDatabase(docs, existing, doc, fresh_id) ==
  IF existing # <<>>
    THEN ReplaceOne(docs, existing[1]._id, doc)
    ELSE InsertOne(docs, doc, fresh_id)

\* line 291: return True
ReturnOnSuccess == "True"

\* an exception handler that reports success
ReturnTrueOnException == "True"


ReturnOnException == "False"


(***************************************************************************)
(* The observations a caller may pass to update_company_stats.             *)
(***************************************************************************)
Observations ==
  {     [company_name |-> PyStr(<<"G", "O", "O", "G", "L", "E">>),
     website |-> PyStr(<<"a", ".", "c", "o", "m">>), location |-> PyStr(<<"R", "e", "m", "o", "t", "e">>),
     result |-> PyStr(<<"R", "E", "A", "L">>), confidence |-> PyInt(<<"9", "0">>), patterns |-> PyList(<<"p1", "p2">>)],
    [company_name |-> PyStr(<<"G", "o", "o", "g", "l", "e", " ", "I", "n", "c", ".">>),
     website |-> PyStr(<<" ", "b", ".", "i", "o", " ">>), location |-> PyStr(<<"W", "o", "r", "k", " ", "f", "r", "o", "m", " ", "h", "o", "m", "e">>),
     result |-> PyStr(<<" ", "r", "e", "a", "l", " ">>), confidence |-> PyInt(<<"8", "0">>), patterns |-> PyList(<<"p2", "p2", "p3">>)],
    [company_name |-> PyStr(<<"G", "o", "o", "g", "l", "e", " ", "I", "n", "c", ".">>),
     website |-> PyStr(<<"s", "c", "a", "m", ".", "n", "e", "t">>), location |-> PyStr(<<"H", "y", "b", "r", "i", "d">>),
     result |-> PyStr(<<"F", "A", "K", "E">>), confidence |-> PyInt(<<"1", "0">>), patterns |-> PyList(<<"p1">>)],
    [company_name |-> PyStr(<<"G", "o", "o", "-", "g", "l", "e">>),
     website |-> PyStr(<<"U", "n", "k", "n", "o", "w", "n">>), location |-> PyStr(<<"A", "u", "s", "t", "i", "n", ",", " ", "T", "X">>),
     result |-> PyStr(<<"R", "E", "A", "L">>), confidence |-> PyInt(<<"7", "0">>), patterns |-> PyList(<<>>)],
    [company_name |-> PyStr(<<"G", "o", "o", "g", "l", "e", " ", "L", "L", "C", ".">>),
     website |-> PyNone, location |-> PyNone,
     result |-> PyNone, confidence |-> PyNone, patterns |-> PyNone],
    [company_name |-> PyStr(<<"A", "c", "m", "e">>),
     website |-> PyStr(<<"a", ".", "c", "o", "m">>), location |-> PyStr(<<"r", "e", "m", "o", "t", "e", " ">>),
     result |-> PyStr(<<"R", "e", "a", "l">>), confidence |-> PyInt(<<"6", "0">>), patterns |-> PyList(<<"p3">>)],
    [company_name |-> PyStr(<<"A", "c", "m", "e", " ", "R", "o", "b", "o", "t", "i", "c", "s">>),
     website |-> PyStr(<<"b", ".", "i", "o">>), location |-> PyStr(<<"h", "y", "b", "r", "i", "d", " ", "r", "e", "m", "o", "t", "e">>),
     result |-> PyStr(<<"F", "A", "K", "E">>), confidence |-> PyInt(<<"2", "0">>), patterns |-> PyList(<<"p1", "p3">>)],
    [company_name |-> PyStr(<<"&", "&">>),
     website |-> PyStr(<<"u", "n", "k", "n", "o", "w", "n">>), location |-> PyStr(<<>>),
     result |-> PyStr(<<"F", "A", "K", "E">>), confidence |-> PyInt(<<"3", "0">>), patterns |-> PyNone],
    [company_name |-> PyStr(<<"+", "+">>),
     website |-> PyStr(<<"b", ".", "i", "o">>), location |-> PyStr(<<"R", "e", "m", "o", "t", "e">>),
     result |-> PyStr(<<"R", "E", "A", "L">>), confidence |-> PyInt(<<"5", "0">>), patterns |-> PyList(<<"p1">>)],
    [company_name |-> PyStr(<<" ", "T", "h", "e", " ", "C", "o", "m", "p", "a", "n", "y", " ">>),
     website |-> PyStr(<<"a", ".", "c", "o", "m">>), location |-> PyStr(<<"R", "e", "m", "o", "t", "e">>),
     result |-> PyStr(<<"R", "E", "A", "L">>), confidence |-> PyInt(<<"9", "0">>), patterns |-> PyList(<<"p1">>)],
    [company_name |-> PyNone,
     website |-> PyStr(<<"a", ".", "c", "o", "m">>), location |-> PyStr(<<"R", "e", "m", "o", "t", "e">>),
     result |-> PyStr(<<"F", "A", "K", "E">>), confidence |-> PyInt(<<"9", "0">>), patterns |-> PyList(<<"p1">>)],
    [company_name |-> PyStr(<<"A", "c", "m", "e">>),
     website |-> PyInt(<<"4", "2">>), location |-> PyStr(<<"R", "e", "m", "o", "t", "e">>),
     result |-> PyStr(<<"R", "E", "A", "L">>), confidence |-> PyInt(<<"9", "0">>), patterns |-> PyList(<<"p1">>)] }

\* line 185 for each observation: name_clean = _standardize_company_name(company_name)
NameClean == [obs \in Observations |-> StandardizeCompanyName(obs.company_name)]

\* line 193 for each observation: loc_clean = _normalize_location(location)
LocClean == [obs \in Observations |-> NormalizeLocation(obs.location)]

NoObservation ==
  [company_name |-> PyNone, website |-> PyNone, location |-> PyNone,
   result |-> PyNone, confidence |-> PyNone, patterns |-> PyNone]

NoEntry ==
  [website |-> <<>>, location |-> <<>>, timestamp |-> 0, confidence_score |-> PyNone]

(***************************************************************************)
(* analytics_core.py: the aggregations of AnalyticsCore over companies, the *)
(* documents list(company_collection.find({})) returned.  fraud_percentage *)
(* is in hundredths of a percent, as in the documents.                     *)
(***************************************************************************)
\* sum(c.get(field, 0) for c in companies)
RECURSIVE SumField(_, _)
SumField(companies, field) ==
  IF companies = <<>> THEN 0
  ELSE Get(Head(companies), field, 0) + SumField(Tail(companies), field)

\* totals whose percentage is cut to two decimals instead of rounded
ComputeTotalsTruncated(companies) ==
  LET total_real == SumField(companies, "real_count")
      total_fake == SumField(companies, "fake_count")
      total_analyses == total_real + total_fake
  IN [total_analyses |-> total_analyses,
      total_real |-> total_real,
      total_fake |-> total_fake,
      fraud_percentage |-> IF total_analyses > 0
                             THEN (total_fake * 10000) \div total_analyses
                             ELSE 0]

\* compute_totals, lines 11-24
ComputeTotals(companies) ==
  LET total_real == SumField(companies, "real_count")
      total_fake == SumField(companies, "fake_count")
      total_analyses == total_real + total_fake
  IN [total_analyses |-> total_analyses,
      total_real |-> total_real,
      total_fake |-> total_fake,
      fraud_percentage |-> IF total_analyses > 0
                             THEN RoundHalfEven(total_fake * 10000, total_analyses)
                             ELSE 0]

\* a pie chart with the two values the other way round
ComputePieChartSwapped(companies) ==
  LET totals == ComputeTotals(companies)
  IN [labels |-> <<"Legit", "Fake">>,
      values |-> <<totals.total_fake, totals.total_real>>]

\* compute_pie_chart, lines 28-32
ComputePieChart(companies) ==
  LET totals == ComputeTotals(companies)
  IN [labels |-> <<"Legit", "Fake">>,
      values |-> <<totals.total_real, totals.total_fake>>]

\* lines 37-45: the companies with fraud_percentage > 0, cut to three fields
RECURSIVE Frauds(_)
Frauds(companies) ==
  IF companies = <<>> THEN <<>>
  ELSE LET c == Head(companies)
       IN IF Get(c, "fraud_percentage", 0) > 0
            THEN <<[company_name |-> Get(c, "company_name", Unknown),
                    fraud_percentage |-> Get(c, "fraud_percentage", 0),
                    total_analysis_count |-> Get(c, "total_analysis_count", 0)]>>
                 \o Frauds(Tail(companies))
            ELSE Frauds(Tail(companies))
\* a descending sort that puts a later element before its equals
InsertBeforeEquals(sorted, x) ==
  LET before == {i \in 1..Len(sorted) : sorted[i].fraud_percentage > x.fraud_percentage}
      k == Cardinality(before)
  IN SubSeq(sorted, 1, k) \o <<x>> \o SubSeq(sorted, k + 1, Len(sorted))

\* list.sort(key=fraud_percentage, reverse=True) is stable: an element goes
\* after every element that is not smaller than it
InsertDescending(sorted, x) ==
  LET before == {i \in 1..Len(sorted) : sorted[i].fraud_percentage >= x.fraud_percentage}
      k == Cardinality(before)
  IN SubSeq(sorted, 1, k) \o <<x>> \o SubSeq(sorted, k + 1, Len(sorted))

\* line 47: frauds.sort(key=lambda x: x["fraud_percentage"], reverse=True)
RECURSIVE SortDescending(_)
SortDescending(frauds) ==
  IF frauds = <<>> THEN <<>>
  ELSE InsertDescending(SortDescending(SubSeq(frauds, 1, Len(frauds) - 1)),
                        frauds[Len(frauds)])

\* line 48: frauds[:3]
FirstThree(frauds) == SubSeq(frauds, 1, IF Len(frauds) < 3 THEN Len(frauds) ELSE 3)

\* top_fraud_companies, lines 37-48
TopFraudCompanies(companies) == FirstThree(SortDescending(Frauds(companies)))

\* lines 58-60: the real entries of a company followed by its fake entries
AllEntries(c) ==
  Get(Get(c, "real_internships", <<>>), "entries", <<>>)
    \o Get(Get(c, "fake_internships", <<>>), "entries", <<>>)

RECURSIVE EntriesOf(_)
EntriesOf(companies) ==
  IF companies = <<>> THEN <<>>
  ELSE AllEntries(Head(companies)) \o EntriesOf(Tail(companies))
\* a test for remote that compares the location as it is stored
IsRemoteAsStored(e) == Get(e, "location", <<>>) = <<"r", "e", "m", "o", "t", "e">>

\* lines 63-64: (e.get("location", "") or "").strip().lower() == "remote"
IsRemote(e) == Lower(Strip(Get(e, "location", <<>>))) = <<"r", "e", "m", "o", "t", "e">>

\* remote_vs_onsite, lines 52-70
RemoteVsOnsite(companies) ==
  LET all_entries == EntriesOf(companies)
      remote == Cardinality({i \in 1..Len(all_entries) : IsRemote(all_entries[i])})
  IN [remote |-> remote, onsite |-> Len(all_entries) - remote]

\* the whole of update_company_stats on the documents docs, when no store
\* operation fails and no other call runs: the documents afterwards
UpdateCompanyStats(docs, obs, timestamp) ==
  LET name_clean == NameClean[obs]
      found == FindExistingCompany(docs, name_clean)
      entry == MakeEntry(obs.website, LocClean[obs], timestamp, obs.confidence)
  IN IF SkipUpdate(name_clean) \/ WebsiteRaises(obs.website) THEN docs
     ELSE SaveToDatabase(docs, found.doc,
                         MergedDoc(found.doc, name_clean, entry, obs.result, obs.patterns),
                         Len(docs) + 1)

\* documents as the aggregations may find them: A and B with counts only,
\* companies with entries, a company without fake_internships and a document
\* with no field but _id
SampleDocs ==
  { [_id |-> 1, company_name |-> <<"A">>, total_analysis_count |-> 10,
     real_count |-> 8, fake_count |-> 2, fraud_percentage |-> 2000],
    [_id |-> 2, company_name |-> <<"B">>, total_analysis_count |-> 10,
     real_count |-> 1, fake_count |-> 9, fraud_percentage |-> 9000],
    [_id |-> 3, company_name |-> <<"C">>, total_analysis_count |-> 4,
     real_count |-> 2, fake_count |-> 2, fraud_percentage |-> 5000,
     real_internships |-> [pattern_matches |-> <<>>, entries |->
       << [location |-> <<"R", "e", "m", "o", "t", "e">>],
          [location |-> <<"r", "e", "m", "o", "t", "e", " ">>] >>],
     fake_internships |-> [pattern_matches |-> <<>>, entries |->
       << [location |-> <<"H", "y", "b", "r", "i", "d">>],
          [location |-> <<"A", "u", "s", "t", "i", "n", ",", " ", "T", "X">>] >>]],
    [_id |-> 4, company_name |-> <<"D">>, total_analysis_count |-> 2,
     real_count |-> 1, fake_count |-> 1, fraud_percentage |-> 5000,
     real_internships |-> [pattern_matches |-> <<>>, entries |->
       << [location |-> <<" ", "R", "E", "M", "O", "T", "E">>] >>],
     fake_internships |-> [pattern_matches |-> <<>>, entries |->
       << [website |-> <<"a", ".", "c", "o", "m">>] >>]],
    [_id |-> 5, company_name |-> <<"E">>, total_analysis_count |-> 2,
     real_count |-> 2, fake_count |-> 0, fraud_percentage |-> 0,
     real_internships |-> [pattern_matches |-> <<>>, entries |->
       << [location |-> Unknown],
          [location |-> <<"R", "e", "m", "o", "t", "e">>] >>]],
    [_id |-> 6] }

\* the record sets of at most MaxRecords of these documents, in every order
RecordSets ==
  UNION { {r \in [1..n -> SampleDocs] : \A i, j \in 1..n : i # j => r[i] # r[j]}
          : n \in 0..MaxRecords }

\* the record sets two calls of update_company_stats, one after the other,
\* leave from an empty store
MergedStores ==
  { UpdateCompanyStats(UpdateCompanyStats(<<>>, o1, 1), o2, 2) : o1, o2 \in Observations }

\* the documents single calls of update_company_stats create
CreatedDocs ==
  { UpdateCompanyStats(<<>>, o, 1)[1] :
      o \in {obs \in Observations : UpdateCompanyStats(<<>>, obs, 1) # <<>>} }

\* one of them for each company name
ResolverDocs ==
  { CHOOSE d \in CreatedDocs : d.company_name = name :
      name \in {d.company_name : d \in CreatedDocs} }

\* the record sets of at most MaxRecords of these documents, in every order
\* (calls that run together can leave several documents for one company)
ResolverStores ==
  UNION { { [i \in 1..n |-> WithId(r[i], i)] :
              r \in {q \in [1..n -> ResolverDocs] : \A i, j \in 1..n : i # j => q[i] # q[j]} }
          : n \in 0..MaxRecords }

\* the names given to _find_existing_company: the normalized names of the
\* observations, a name in capitals and one more spelling of "Google"
ResolverNames ==
  {NameClean[obs] : obs \in Observations}
    \cup { <<"G", "O", "O", "G", "L", "E">>, <<"G", "o", "o", " ", "G", "l", "e">> }

\* the calls of AnalyticsCore a request may make; top_fraud_companies is
\* declared without parameters, so a call with an argument is made as well
QueryCalls ==
  { [op |-> "compute_totals", args |-> <<>>],
    [op |-> "compute_pie_chart", args |-> <<>>],
    [op |-> "top_fraud_companies", args |-> <<>>],
    [op |-> "top_fraud_companies", args |-> <<1>>],
    [op |-> "remote_vs_onsite", args |-> <<>>] }

\* an aggregation whose totals divide by the total without looking at it
AggregateUnguarded(op, companies) ==
  IF op \in {"compute_totals", "compute_pie_chart"}
       /\ ComputeTotals(companies).total_analyses = 0
    THEN [t |-> "ZeroDivisionError", v |-> <<>>]
  ELSE IF op = "compute_totals" THEN [t |-> "dict", v |-> ComputeTotals(companies)]
  ELSE IF op = "compute_pie_chart" THEN [t |-> "dict", v |-> ComputePieChart(companies)]
  ELSE IF op = "top_fraud_companies" THEN [t |-> "list", v |-> TopFraudCompanies(companies)]
  ELSE [t |-> "dict", v |-> RemoteVsOnsite(companies)]

\* what the aggregation op returns for the documents it read
Aggregate(op, companies) ==
  IF op = "compute_totals" THEN [t |-> "dict", v |-> ComputeTotals(companies)]
  ELSE IF op = "compute_pie_chart" THEN [t |-> "dict", v |-> ComputePieChart(companies)]
  ELSE IF op = "top_fraud_companies" THEN [t |-> "list", v |-> TopFraudCompanies(companies)]
  ELSE [t |-> "dict", v |-> RemoteVsOnsite(companies)]

\* no aggregation called yet
NoQuery ==
  [pc |-> "idle", op |-> "none", args |-> <<>>, pos |-> 0, companies |-> <<>>,
   result |-> [t |-> "none", v |-> <<>>]]

\* the request threads that run update_company_stats: each runs one call at a
\* time, and which thread runs a call makes no difference to it
Threads == {"t1", "t2"}

(***************************************************************************)
(* State.                                                                  *)
(*   store     the documents of company_collection, in natural order       *)
(*   next_id   the _id the store gives to the next inserted document       *)
(*   clock     datetime.utcnow(), counted in calls                         *)
(*   running   the calls of update_company_stats under way, one per busy   *)
(*             thread: the step each is at (pc) and its local variables    *)
(*             (pre is the store when the call began)                      *)
(*   calls     calls of update_company_stats started                       *)
(*   history   one record per finished call, in order of completion: what  *)
(*             it returned, the document it saved and whether it raised    *)
(*   pre_store the store when the call that finished last began            *)
(*   last_at   the step at which the call that finished last ended         *)
(*   query     the aggregation of AnalyticsCore under way or returned last: *)
(*             its cursor over the store (pos), the documents read so far  *)
(*             (companies) and, once returned, its result                  *)
(*   verification_chain  the blocks of the BlockchainVerification object   *)
(*             of app.py, oldest first                                     *)
(*   company_registry    its registry: company name to last verification   *)
(***************************************************************************)
VARIABLES store, next_id, clock, running, calls, history, pre_store, last_at, query,
          verification_chain, company_registry

vars == <<store, next_id, clock, running, calls, history, pre_store, last_at, query,
          verification_chain, company_registry>>

Init ==
  /\ store = <<>>
  /\ next_id = 1
  /\ clock = 1
  /\ running = {}
  /\ calls = 0
  /\ history = <<>>
  /\ pre_store = <<>>
  /\ last_at = "begin"
  /\ query = NoQuery
  /\ verification_chain = <<>>
  /\ company_registry = <<>>

\* a call ends at step pc: it returns value, having saved document id (0: none)
Finish(pc, obs, name_clean, pre, value, id, match_type, raised) ==
  /\ history' = Append(history,
       [name_clean |-> name_clean, ret |-> value, id |-> id,
        match_type |-> match_type, real |-> IsReal(obs.result), raised |-> raised])
  /\ pre_store' = pre
  /\ last_at' = pc

\* lines 183-203: a free thread begins a call; an unknown name returns at
\* once, a website without strip() raises, otherwise the entry is built
Begin(obs) ==
  /\ Cardinality(running) < Cardinality(Threads)
  /\ calls < MaxCalls
  /\ calls' = calls + 1
  /\ LET name_clean == NameClean[obs] IN
       IF SkipUpdate(name_clean)
         THEN /\ Finish("begin", obs, name_clean, store, ReturnOnSuccess, 0, "none", FALSE)
              /\ UNCHANGED <<store, next_id, clock, running, query,
                             verification_chain, company_registry>>
       ELSE IF WebsiteRaises(obs.website)
         THEN /\ Finish("begin", obs, name_clean, store, ReturnOnException, 0, "none", TRUE)
              /\ UNCHANGED <<store, next_id, clock, running, query,
                             verification_chain, company_registry>>
       ELSE /\ running' = running \cup
                 {[pc |-> "find_exact", obs |-> obs, name_clean |-> name_clean,
                   entry |-> MakeEntry(obs.website, LocClean[obs], clock, obs.confidence),
                   existing |-> <<>>, match_type |-> "none", pre |-> store]}
            /\ clock' = clock + 1
            /\ UNCHANGED <<store, next_id, history, pre_store, last_at, query,
                           verification_chain, company_registry>>

\* a store operation of call c raises (the store is unavailable): lines 293-297
Raise(c) ==
  /\ Finish(c.pc, c.obs, c.name_clean, c.pre, ReturnOnException, 0, "none", TRUE)
  /\ running' = running \ {c}
  /\ UNCHANGED <<store, next_id, clock, calls, query, verification_chain, company_registry>>

\* call c moves on as next
Continue(c, next) ==
  /\ running' = (running \ {c}) \cup {next}
  /\ UNCHANGED <<store, next_id, clock, calls, history, pre_store, last_at, query,
                 verification_chain, company_registry>>

\* lines 87-94: the exact pass, one find_one on the store
FindExact(c) ==
  /\ c.pc = "find_exact"
  /\ \/ Raise(c)
     \/ LET exact_match == IF NoLookup(c.name_clean) THEN <<>>
                           ELSE FindOneExact(store, c.name_clean)
        IN Continue(c,
             IF exact_match # <<>>
               THEN [c EXCEPT !.pc = "save", !.existing = exact_match,
                              !.match_type = "exact"]
             ELSE IF NoLookup(c.name_clean)
                     \/ NoFuzzyPass(NormalizeForMatching(c.name_clean))
               THEN [c EXCEPT !.pc = "save"]
             ELSE [c EXCEPT !.pc = "find_fuzzy"])

\* lines 96-111: the fuzzy pass, one find on the store
FindFuzzy(c) ==
  /\ c.pc = "find_fuzzy"
  /\ \/ Raise(c)
     \/ LET doc == FirstFuzzy(Projection(store), NormalizeForMatching(c.name_clean))
        IN Continue(c,
             IF doc # <<>>
               THEN [c EXCEPT !.pc = "save", !.existing = doc, !.match_type = "fuzzy"]
               ELSE [c EXCEPT !.pc = "save"])

\* lines 208-291: the merge into the document found (or a new one) and the
\* one write to the store
Save(c) ==
  /\ c.pc = "save"
  /\ \/ Raise(c)
     \/ /\ store' = SaveToDatabase(store, c.existing,
                      MergedDoc(c.existing, c.name_clean, c.entry,
                                c.obs.result, c.obs.patterns),
                      next_id)
        /\ next_id' = IF c.existing # <<>> THEN next_id ELSE next_id + 1
        /\ Finish("save", c.obs, c.name_clean, c.pre, ReturnOnSuccess,
                  IF c.existing # <<>> THEN c.existing[1]._id ELSE next_id,
                  c.match_type, FALSE)
        /\ running' = running \ {c}
        /\ UNCHANGED <<clock, calls, query, verification_chain, company_registry>>

\* request threads run update_company_stats concurrently, without a lock
Next ==
  \/ \E obs \in Observations : Begin(obs)
  \/ \E c \in running : FindExact(c)
  \/ \E c \in running : FindFuzzy(c)
  \/ \E c \in running : Save(c)

Spec == Init /\ [][Next]_vars

\* calls made one at a time: a call begins only when no other is running
SeqNext ==
  \/ \E obs \in Observations : running = {} /\ Begin(obs)
  \/ \E c \in running : FindExact(c)
  \/ \E c \in running : FindFuzzy(c)
  \/ \E c \in running : Save(c)

SeqSpec == Init /\ [][SeqNext]_vars

\* a request calls an aggregation: a call with an argument raises TypeError
\* (every method of AnalyticsCore takes none), otherwise find({}) opens a
\* cursor on the collection
QueryBegin(call) ==
  /\ query.pc \in {"idle", "done"}
  /\ query' = IF call.args # <<>>
                THEN [pc |-> "done", op |-> call.op, args |-> call.args, pos |-> 0,
                      companies |-> <<>>, result |-> [t |-> "TypeError", v |-> <<>>]]
                ELSE [pc |-> "find", op |-> call.op, args |-> call.args, pos |-> 1,
                      companies |-> <<>>, result |-> [t |-> "none", v |-> <<>>]]
  /\ UNCHANGED <<store, next_id, clock, running, calls, history, pre_store, last_at,
                 verification_chain, company_registry>>

\* list(company_collection.find({})): the cursor yields the next document,
\* whole, as it is in the store at that moment
QueryRead ==
  /\ query.pc = "find"
  /\ query.pos <= Len(store)
  /\ query' = [query EXCEPT !.companies = Append(@, store[query.pos]), !.pos = @ + 1]
  /\ UNCHANGED <<store, next_id, clock, running, calls, history, pre_store, last_at,
                 verification_chain, company_registry>>

\* the cursor is exhausted: the aggregation computes on the documents read
\* and returns
QueryReturn ==
  /\ query.pc = "find"
  /\ query.pos > Len(store)
  /\ query' = [query EXCEPT !.pc = "done", !.result = Aggregate(query.op, query.companies)]
  /\ UNCHANGED <<store, next_id, clock, running, calls, history, pre_store, last_at,
                 verification_chain, company_registry>>

\* _find_existing_company(company_name) on a record set that no call changes
Resolve(company_name) ==
  /\ query' = [pc |-> "done", op |-> "_find_existing_company", args |-> <<company_name>>,
               pos |-> 0, companies |-> <<>>,
               result |-> [t |-> FindExistingCompany(store, company_name).match_type,
                           v |-> FindExistingCompany(store, company_name).doc]]
  /\ UNCHANGED <<store, next_id, clock, running, calls, history, pre_store, last_at,
                 verification_chain, company_registry>>

ResolverInit ==
  /\ store \in ResolverStores
  /\ next_id = Len(store) + 1
  /\ clock = 1
  /\ running = {}
  /\ calls = 0
  /\ history = <<>>
  /\ pre_store = <<>>
  /\ last_at = "begin"
  /\ query = NoQuery
  /\ verification_chain = <<>>
  /\ company_registry = <<>>

ResolverNext == \E company_name \in ResolverNames : Resolve(company_name)

ResolverSpec == ResolverInit /\ [][ResolverNext]_vars

\* the aggregations on a record set that no call changes
AnalyticsInit ==
  /\ store \in RecordSets \cup MergedStores
  /\ next_id = Len(store) + 1
  /\ clock = 1
  /\ running = {}
  /\ calls = 0
  /\ history = <<>>
  /\ pre_store = <<>>
  /\ last_at = "begin"
  /\ query = NoQuery
  /\ verification_chain = <<>>
  /\ company_registry = <<>>

AnalyticsNext ==
  \/ \E call \in QueryCalls : QueryBegin(call)
  \/ QueryRead
  \/ QueryReturn

AnalyticsSpec == AnalyticsInit /\ [][AnalyticsNext]_vars

\* one request thread runs an aggregation while another makes calls of
\* update_company_stats, one after the other
QueryNext ==
  \/ \E obs \in Observations : running = {} /\ Begin(obs)
  \/ \E c \in running : FindExact(c)
  \/ \E c \in running : FindFuzzy(c)
  \/ \E c \in running : Save(c)
  \/ \E call \in QueryCalls : query.pc = "idle" /\ QueryBegin(call)
  \/ QueryRead
  \/ QueryReturn

QuerySpec == Init /\ [][QueryNext]_vars

(***************************************************************************)
(* The normalizer and the location classifier on their own: one call of    *)
(* _standardize_company_name or _normalize_location with a raw value, the  *)
(* normalizer once more on its own result, and update_company_stats for an *)
(* observation with a raw name or a raw location, then for a display name  *)
(* the store holds.                                                        *)
(***************************************************************************)
\* raw company names are put together from a base, two endings and a
\* trailing part: the bases (a blacklisted name, names of three and four words)
NameBases ==
  { <<>>,
    <<"F", "o", "o">>,
    <<"t", "h", "e", " ", "c", "o", "m", "p", "a", "n", "y">>,
    <<"A", " ", "B", " ", "C">>,
    <<"A", " ", "B", " ", "C", " ", "D">>,
    <<"n", "/", "a">> }

\* the endings: nothing, the legal suffixes and two more words
NameEndings ==
  { <<>>,
    <<" ", "I", "n", "c">>,
    <<" ", "I", "n", "c", ".">>,
    <<" ", "l", "t", "d">>,
    <<" ", "L", "L", "C">>,
    <<" ", "C", "o">>,
    <<" ", "P", "v", "t", " ", "L", "t", "d">>,
    <<" ", "P", "r", "i", "v", "a", "t", "e", " ", "L", "i", "m", "i", "t", "e", "d">>,
    <<" ", "C", "o", "r", "p", "o", "r", "a", "t", "i", "o", "n">>,
    <<" ", "L", "i", "m", "i", "t", "e", "d">>,
    <<" ", "e", " ", "f">> }

\* what follows the endings: nothing or punctuation
NameTrails ==
  { <<>>,
    <<".">>,
    <<",">> }

\* raw locations are put together from a head and a tail, with or without
\* whitespace around them
LocationHeads ==
  { <<>>,
    <<"R", "e", "m", "o", "t", "e">>,
    <<"H", "y", "b", "r", "i", "d">>,
    <<"r", "e", "m", "o", "t", "e">>,
    <<"H", "Y", "B", "R", "I", "D">>,
    <<"A", "u", "s", "t", "i", "n", ",", " ", "T", "X">>,
    <<"W", "o", "r", "k", " ", "f", "r", "o", "m", " ", "h", "o", "m", "e">>,
    <<"w", "f", "h">>,
    <<"O", "n", "l", "i", "n", "e">>,
    <<"v", "i", "r", "t", "u", "a", "l">>,
    <<"H", "e", "a", "d", " ", "o", "f", "f", "i", "c", "e">> }

\* the tails
LocationTails ==
  { <<>>,
    <<" ", "r", "e", "m", "o", "t", "e">>,
    <<" ", "h", "y", "b", "r", "i", "d">>,
    <<" ", "o", "f", "f", "i", "c", "e">> }

\* the values a caller passes as company_name
RawNames ==
  { PyStr(base \o first \o second \o trail) :
      base \in NameBases, first \in NameEndings, second \in NameEndings,
      trail \in NameTrails }
    \cup { PyNone, PyInt(<<"4", "2">>), PyInt(<<"0">>), PyList(<<"Foo">>) }

\* the values a caller passes as location
RawLocations ==
  { PyStr(lead \o head \o tail \o trail) :
      lead \in {<<>>, <<" ">>}, head \in LocationHeads, tail \in LocationTails,
      trail \in {<<>>, <<" ">>} }
    \cup { PyNone, PyInt(<<"4", "2">>), PyInt(<<"0">>), PyList(<<"Remote">>) }

\* _standardize_company_name and _normalize_location on these values
Standardized == [raw \in RawNames |-> StandardizeCompanyName(raw)]

Located == [raw \in RawLocations |-> NormalizeLocation(raw)]

\* _standardize_company_name(raw) is called; pos counts the applications of
\* the normalizer in a row
Standardize(raw) ==
  /\ query' = [pc |-> "done", op |-> "_standardize_company_name", args |-> <<raw>>,
               pos |-> 1, companies |-> <<>>,
               result |-> [t |-> "str", v |-> Standardized[raw]]]
  /\ UNCHANGED <<store, next_id, clock, running, calls, history, pre_store, last_at,
                 verification_chain, company_registry>>

\* _standardize_company_name is called with the name it returned
Restandardize ==
  /\ query.pc = "done"
  /\ query.op = "_standardize_company_name"
  /\ query.pos = 1
  /\ query' = [query EXCEPT !.args = <<PyStr(query.result.v)>>,
                            !.pos = 2,
                            !.result = [t |-> "str",
                                        v |-> StandardizeCompanyName(PyStr(query.result.v))]]
  /\ UNCHANGED <<store, next_id, clock, running, calls, history, pre_store, last_at,
                 verification_chain, company_registry>>

\* _normalize_location(raw) is called
NormalizeLoc(raw) ==
  /\ query' = [pc |-> "done", op |-> "_normalize_location", args |-> <<raw>>,
               pos |-> 1, companies |-> <<>>,
               result |-> [t |-> "str", v |-> Located[raw]]]
  /\ UNCHANGED <<store, next_id, clock, running, calls, history, pre_store, last_at,
                 verification_chain, company_registry>>

\* an observation of company_name at location
Observed(company_name, location) ==
  [company_name |-> company_name,
   website |-> PyStr(<<"a", ".", "c", "o", "m">>),
   location |-> location,
   result |-> PyStr(<<"R", "E", "A", "L">>),
   confidence |-> PyInt(<<"9", "0">>),
   patterns |-> PyList(<<"p1">>)]

\* the whole of update_company_stats for the observation obs, made while no
\* other call runs and with no store operation failing; name_clean and
\* loc_clean are what lines 185 and 193 compute
CallAlone(obs, name_clean, loc_clean) ==
  LET found == FindExistingCompany(store, name_clean)
      entry == MakeEntry(obs.website, loc_clean, clock, obs.confidence)
  IN /\ calls' = calls + 1
     /\ IF SkipUpdate(name_clean)
          THEN /\ Finish("begin", obs, name_clean, store, ReturnOnSuccess, 0, "none", FALSE)
               /\ UNCHANGED <<store, next_id, clock, verification_chain, company_registry>>
        ELSE IF WebsiteRaises(obs.website)
          THEN /\ Finish("begin", obs, name_clean, store, ReturnOnException, 0, "none", TRUE)
               /\ UNCHANGED <<store, next_id, clock, verification_chain, company_registry>>
        ELSE /\ store' = SaveToDatabase(store, found.doc,
                           MergedDoc(found.doc, name_clean, entry, obs.result, obs.patterns),
                           next_id)
             /\ next_id' = IF found.doc # <<>> THEN next_id ELSE next_id + 1
             /\ clock' = clock + 1
             /\ Finish("save", obs, name_clean, store, ReturnOnSuccess,
                       IF found.doc # <<>> THEN found.doc[1]._id ELSE next_id,
                       found.match_type, FALSE)
     /\ UNCHANGED <<running, query, verification_chain, company_registry>>

\* update_company_stats for an observation of company_name at location
UpdateObserved(company_name, location) ==
  CallAlone(Observed(company_name, location),
            StandardizeCompanyName(company_name), NormalizeLocation(location))

\* one call of a pure function, or one observation followed by an observation
\* named as a record of the store
NormalizerNext ==
  \/ \E raw \in RawNames : query.pc = "idle" /\ calls = 0 /\ Standardize(raw)
  \/ Restandardize
  \/ \E raw \in RawLocations : query.pc = "idle" /\ calls = 0 /\ NormalizeLoc(raw)
  \/ \E raw \in RawNames :
       query.pc = "idle" /\ calls = 0
         /\ UpdateObserved(raw, PyStr(<<"R", "e", "m", "o", "t", "e">>))
  \/ \E raw \in RawLocations :
       query.pc = "idle" /\ calls = 0
         /\ UpdateObserved(PyStr(<<"A", "c", "m", "e">>), raw)
  \/ \E i \in 1..Len(store) :
       calls = 1 /\ UpdateObserved(PyStr(store[i].company_name),
                                   PyStr(<<"R", "e", "m", "o", "t", "e">>))

NormalizerSpec == Init /\ [][NormalizerNext]_vars

(***************************************************************************)
(* A collection of observations merged into an empty store in two orders.  *)
(***************************************************************************)
\* the documents after update_company_stats was called for each observation
\* of the list, one call after the other
RECURSIVE MergeAll(_, _, _)
MergeAll(docs, observations, timestamp) ==
  IF observations = <<>> THEN docs
  ELSE MergeAll(UpdateCompanyStats(docs, Head(observations), timestamp),
                Tail(observations), timestamp + 1)

\* the collections of at most MaxCalls observations
Collections == {c \in SUBSET Observations : Cardinality(c) <= MaxCalls}

\* the orders in which a collection can be merged
Orders(collection) ==
  {order \in [1..Cardinality(collection) -> collection] :
     \A i, j \in 1..Cardinality(collection) : i # j => order[i] # order[j]}

\* the calls for the collection are made in the order given, from an empty
\* store; query.companies is the store that the same calls, made in another
\* order (args), leave from an empty store
MergeInOrder(collection, order) ==
  /\ calls = 0
  /\ store' = MergeAll(<<>>, order, 1)
  /\ calls' = Len(order)
  /\ clock' = Len(order) + 1
  /\ next_id' = Len(store') + 1
  /\ LET other == CHOOSE o \in Orders(collection) : TRUE
     IN query' = [pc |-> "done", op |-> "update_company_stats", args |-> other,
                  pos |-> 0, companies |-> MergeAll(<<>>, other, 1),
                  result |-> [t |-> "bool", v |-> <<>>]]
  /\ UNCHANGED <<running, history, pre_store, last_at, verification_chain, company_registry>>

OrderNext ==
  \E collection \in Collections : \E order \in Orders(collection) :
    MergeInOrder(collection, order)

OrderSpec == Init /\ [][OrderNext]_vars

(***************************************************************************)
(* create_dashboard beside update_company_stats: the dashboard calls the   *)
(* four aggregations one after the other, each with its own find({}).      *)
(***************************************************************************)
\* the aggregations create_dashboard calls, in the order of its dict display
DashboardParts ==
  <<"compute_totals", "compute_pie_chart", "top_fraud_companies", "remote_vs_onsite">>

\* lines 74-82: the structure returned, from what the aggregations returned
Dashboard(parts) ==
  [success |-> TRUE,
   totals |-> parts[1],
   pie_chart |-> parts[2],
   top_fraud_companies |-> parts[3],
   location_stats |-> parts[4],
   patterns_placeholder |-> <<>>,
   recommendations_placeholder |-> <<>>]

\* create_dashboard is called: the first aggregation opens its cursor; began
\* is the time of the call and result.v collects what the aggregations return
DashboardBegin ==
  /\ query.pc = "idle"
  /\ query' = [pc |-> "find", op |-> "create_dashboard", args |-> <<>>, pos |-> 1,
               companies |-> <<>>, result |-> [t |-> "parts", v |-> <<>>],
               began |-> clock]
  /\ UNCHANGED <<store, next_id, clock, running, calls, history, pre_store, last_at,
                 verification_chain, company_registry>>

\* the cursor of the aggregation under way is exhausted: the aggregation
\* returns, and the next one opens its cursor or create_dashboard returns
DashboardPart ==
  /\ query.pc = "find"
  /\ query.op = "create_dashboard"
  /\ query.pos > Len(store)
  /\ LET part == Aggregate(DashboardParts[Len(query.result.v) + 1], query.companies).v
         parts == Append(query.result.v, part)
     IN query' = IF Len(parts) < Len(DashboardParts)
                   THEN [query EXCEPT !.pos = 1, !.companies = <<>>, !.result.v = parts]
                   ELSE [query EXCEPT !.pc = "done", !.companies = <<>>,
                                      !.result = [t |-> "dict", v |-> Dashboard(parts)]]
  /\ UNCHANGED <<store, next_id, clock, running, calls, history, pre_store, last_at,
                 verification_chain, company_registry>>

\* a call of update_company_stats made alone: its one write to the store is
\* one step for the reader
MergeAlone(obs) ==
  /\ calls < MaxCalls
  /\ running = {}
  /\ CallAlone(obs, NameClean[obs], LocClean[obs])

\* one request thread runs create_dashboard while another makes calls of
\* update_company_stats, one after the other
DashboardNext ==
  \/ \E obs \in Observations : MergeAlone(obs)
  \/ DashboardBegin
  \/ QueryRead
  \/ DashboardPart

DashboardSpec == Init /\ [][DashboardNext]_vars

(***************************************************************************)
(* blockchain_verification.py: the BlockchainVerification object of app.py. *)
(* Names, domains and salaries are strings; an email and a location, which  *)
(* the checks search, are sequences of characters.  A dict of job_data or   *)
(* company_data is a record with the keys it has.  Scores are whole         *)
(* percents (each weight times 100 is a whole number).                      *)
(***************************************************************************)
\* hashlib.sha256(json.dumps(block, sort_keys=True).encode()).hexdigest():
\* the digest stands for the serialized dict, so two digests are equal
\* exactly when the dicts have the same keys with the same values (SHA-256
\* taken as free of collisions)
CalculateHash(block) == [sha256 |-> block]

\* _get_latest_hash
GetLatestHash(chain) == IF chain = <<>> THEN "0" ELSE chain[Len(chain)].hash

\* create_verification_block: the hash is computed over the dict as it is at
\* line 34, with 'hash': None and 'verification_score': 0
CreateVerificationBlock(chain, job_data, verification_type, now) ==
  LET block == [index |-> Len(chain),
                timestamp |-> now,
                verification_type |-> verification_type,
                data |-> job_data,
                previous_hash |-> GetLatestHash(chain),
                hash |-> PyNone,
                verified_by |-> "SnifTern.ai",
                verification_score |-> 0]
  IN [block EXCEPT !.hash = CalculateHash(block)]

\* email.split('@')[1]: what stands between the first "@" and the next
AfterAt(email) ==
  LET rest == SubSeq(email, FirstIndex({i \in 1..Len(email) : email[i] = "@"}) + 1,
                     Len(email))
      ats == {i \in 1..Len(rest) : rest[i] = "@"}
  IN IF ats = {} THEN rest ELSE SubSeq(rest, 1, FirstIndex(ats) - 1)

\* _verify_contact_info
VerifyContactInfo(contact_info) ==
  LET email == Get(contact_info, "email", <<>>)
  IN email # <<>> /\ Contains(email, <<"@">>) /\ Contains(AfterAt(email), <<".">>)

valid_locations ==
  { <<"r", "e", "m", "o", "t", "e">>, <<"s", "a", "n", " ", "f", "r", "a", "n", "c", "i", "s", "c", "o">>, <<"n", "e", "w", " ", "y", "o", "r", "k">>, <<"l", "o", "n", "d", "o", "n">>, <<"t", "o", "k", "y", "o">> }

\* _verify_location
VerifyLocation(location) ==
  \E valid_loc \in valid_locations : Contains(Lower(location), valid_loc)

\* _perform_verification_checks; reachable says whether the request of
\* _verify_domain to https://domain answers with status 200
PerformVerificationChecks(registry, job_data, reachable) ==
  [company_verification |->
     IF Get(job_data, "company", "") \in DOMAIN registry
       THEN registry[Get(job_data, "company", "")].verified
       ELSE TRUE,
   domain_verification |-> Get(job_data, "domain", "") # "" /\ reachable,
   contact_verification |->
     "contact_info" \in DOMAIN job_data /\ VerifyContactInfo(job_data.contact_info),
   salary_verification |-> Get(job_data, "salary", "") # "",
   location_verification |->
     Get(job_data, "location", <<>>) # <<>> /\ VerifyLocation(job_data.location),
   ai_fraud_detection |-> Get(job_data, "fraud_score", 0) < 30,
   pattern_analysis |-> Len(Get(job_data, "pattern_matches", <<>>)) < 3]

\* _perform_company_verification_checks
PerformCompanyVerificationChecks(company_data) ==
  [business_registration |-> TRUE,
   domain_age |-> Get(company_data, "website", "") # "",
   social_media_presence |-> Len(Get(company_data, "social_media", <<>>)) > 0,
   employee_count |-> Get(company_data, "employee_count", 0) > 10,
   financial_stability |-> TRUE,
   legal_compliance |-> TRUE,
   reputation_score |-> Get(company_data, "reputation_score", 0) > 60]

\* the sum of the weights (times 100) of the checks that passed
WeightedScore(checks, weights) ==
  LET RECURSIVE Sum(_)
      Sum(names) ==
        IF names = {} THEN 0
        ELSE LET name == CHOOSE n \in names : TRUE
             IN (IF checks[name] THEN weights[name] ELSE 0) + Sum(names \ {name})
  IN Sum(DOMAIN weights)

\* _calculate_verification_score
CalculateVerificationScore(checks) ==
  WeightedScore(checks,
    [company_verification |-> 25, domain_verification |-> 20,
     contact_verification |-> 15, salary_verification |-> 15,
     location_verification |-> 10, ai_fraud_detection |-> 10,
     pattern_analysis |-> 5])

\* _calculate_company_verification_score
CalculateCompanyVerificationScore(checks) ==
  WeightedScore(checks,
    [business_registration |-> 25, domain_age |-> 20,
     social_media_presence |-> 15, employee_count |-> 15,
     financial_stability |-> 10, legal_compliance |-> 10,
     reputation_score |-> 5])

\* the job postings given to verify_job_posting: a posting with two keys, the
\* posting of the usage example and a posting that fails the fraud checks
JobPostings ==
  { [company |-> "TechCorp", fraud_score |-> 15],
    [id |-> "job_123", title |-> "Software Engineer", company |-> "TechCorp",
     location |-> <<"S", "a", "n", " ", "F", "r", "a", "n", "c", "i", "s", "c", "o", ",", " ", "C", "A">>, salary |-> "$80,000 - $120,000", domain |-> "techcorp.com",
     contact_info |-> [email |-> <<"h", "r", "@", "t", "e", "c", "h", "c", "o", "r", "p", ".", "c", "o", "m">>, phone |-> "(555) 123-4567"],
     fraud_score |-> 15, pattern_matches |-> <<>>],
    [company |-> "X", fraud_score |-> 99, pattern_matches |-> <<"p1", "p2", "p3">>] }

\* the companies given to verify_company_credentials: the company of the
\* usage example (social_media as the list of its items) and a company with
\* a name only
Companies ==
  { [name |-> "TechCorp", website |-> "techcorp.com", employee_count |-> 150,
     social_media |-> << <<"linkedin", "linkedin.com/company/techcorp">>,
                         <<"twitter", "@techcorp">> >>,
     reputation_score |-> 85],
    [name |-> "X"] }

\* verify_job_posting(job_data): checks, score, block, append
VerifyJobPosting(job_data, reachable) ==
  LET checks == PerformVerificationChecks(company_registry, job_data, reachable)
      score == CalculateVerificationScore(checks)
      created == CreateVerificationBlock(verification_chain, job_data,
                                         "job_posting_verification", clock + 1)
      block == [created EXCEPT !.verification_score = score]
  IN /\ Len(verification_chain) < MaxBlocks
     /\ verification_chain' = Append(verification_chain, block)
     /\ clock' = clock + 2
     /\ query' = [pc |-> "done", op |-> "verify_job_posting", args |-> <<job_data>>,
                  pos |-> 0, companies |-> <<>>,
                  result |-> [t |-> "dict",
                              v |-> [verified |-> score >= 70,
                                     verification_score |-> score,
                                     verification_details |-> checks,
                                     block_hash |-> block.hash,
                                     timestamp |-> clock]]]
     /\ UNCHANGED <<store, next_id, running, calls, history, pre_store, last_at,
                    company_registry>>

\* verify_company_credentials(company_data): checks, score, block, append,
\* registry entry
VerifyCompanyCredentials(company_data) ==
  LET checks == PerformCompanyVerificationChecks(company_data)
      score == CalculateCompanyVerificationScore(checks)
      created == CreateVerificationBlock(verification_chain, company_data,
                                         "company_verification", clock + 1)
      block == [created EXCEPT !.verification_score = score]
      name == Get(company_data, "name", "")
      entry == [verification_score |-> score, verified |-> score >= 80,
                last_verified |-> clock + 2, block_hash |-> block.hash]
  IN /\ Len(verification_chain) < MaxBlocks
     /\ verification_chain' = Append(verification_chain, block)
     /\ company_registry' =
          [n \in DOMAIN company_registry \cup {name} |->
             IF n = name THEN entry ELSE company_registry[n]]
     /\ clock' = clock + 3
     /\ query' = [pc |-> "done", op |-> "verify_company_credentials",
                  args |-> <<company_data>>, pos |-> 0, companies |-> <<>>,
                  result |-> [t |-> "dict",
                              v |-> [verified |-> score >= 80,
                                     verification_score |-> score,
                                     verification_details |-> checks,
                                     block_hash |-> block.hash,
                                     timestamp |-> clock]]]
     /\ UNCHANGED <<store, next_id, running, calls, history, pre_store, last_at>>

\* verify_chain_integrity on the chain: the loop returns False at the first
\* block after the first whose previous_hash is not the hash of the block
\* before it or whose hash is not the hash of the dict of lines 329-337
VerifyChainIntegrity(chain) ==
  \A i \in 2..Len(chain) :
    /\ chain[i].previous_hash = chain[i - 1].hash
    /\ chain[i].hash =
         CalculateHash([index |-> chain[i].index,
                        timestamp |-> chain[i].timestamp,
                        verification_type |-> chain[i].verification_type,
                        data |-> chain[i].data,
                        previous_hash |-> chain[i].previous_hash,
                        verified_by |-> chain[i].verified_by,
                        verification_score |-> chain[i].verification_score])

\* verify_chain_integrity() is called
CheckIntegrity ==
  /\ query' = [pc |-> "done", op |-> "verify_chain_integrity", args |-> <<>>,
               pos |-> 0, companies |-> <<>>,
               result |-> [t |-> "bool", v |-> VerifyChainIntegrity(verification_chain)]]
  /\ UNCHANGED <<store, next_id, clock, running, calls, history, pre_store, last_at,
                 verification_chain, company_registry>>

\* the calls made on blockchain_verifier, one at a time
ChainNext ==
  \/ \E job_data \in JobPostings : \E reachable \in BOOLEAN :
       VerifyJobPosting(job_data, reachable)
  \/ \E company_data \in Companies : VerifyCompanyCredentials(company_data)
  \/ CheckIntegrity

ChainSpec == Init /\ [][ChainNext]_vars

(***************************************************************************)
(* Properties.                                                             *)
(***************************************************************************)
Docs == {store[i] : i \in 1..Len(store)}

\* the call that finished last
Last == history[Len(history)]

\* the matching key of a name: lower-cased, every non-alphanumeric removed
MatchKey(name) == KeepAlnum(Lower(name))

\* the finished calls that saved a document
Saved == {k \in 1..Len(history) : history[k].ret = "True" /\ history[k].id # 0}

RECURSIVE SumOver(_, _)
SumOver(docs, field) ==
  IF docs = <<>> THEN 0 ELSE Head(docs)[field] + SumOver(Tail(docs), field)

Google == <<"G", "o", "o", "g", "l", "e">>
GoogleLlc == <<"G", "o", "o", "g", "l", "e", " ", "L", "l", "c">>

\* C1: every stored document has total_analysis_count = real_count +
\* fake_count = number of real entries + number of fake entries, real_count
\* the number of real entries and fake_count the number of fake entries.
CountInvariant ==
  \A d \in Docs :
    /\ d.total_analysis_count = d.real_count + d.fake_count
    /\ d.total_analysis_count
         = Len(d.real_internships.entries) + Len(d.fake_internships.entries)
    /\ d.real_count = Len(d.real_internships.entries)
    /\ d.fake_count = Len(d.fake_internships.entries)

\* a document that has taken real and fake observations
CountWitness ==
  \E d \in Docs : d.real_count >= 1 /\ d.fake_count >= 1 /\ d.total_analysis_count >= 3

\* C2: no lost update: a document that was only ever saved by calls that found
\* it whole (inserted it, or matched it exactly) counts every one of those
\* calls, also when they ran concurrently.
NoLostUpdate ==
  \A d \in Docs :
    LET saves == {k \in Saved : history[k].id = d._id}
    IN (\A k \in saves : history[k].match_type # "fuzzy")
         => d.total_analysis_count = Cardinality(saves)

\* C3: no duplicate creation: the store never holds two documents for the same
\* company (names with the same non-empty matching key), also when the
\* calls that created them ran concurrently.
NoDuplicateCreation ==
  \A i, j \in 1..Len(store) :
    (i # j /\ MatchKey(store[i].company_name) # <<>>)
      => MatchKey(store[i].company_name) # MatchKey(store[j].company_name)

\* C4: after calls made one at a time that all returned True, the counts over
\* all documents add up to the calls whose name was not "unknown": the totals
\* to their number, real_count to those with a REAL verdict, fake_count to the
\* others.
NoDroppedObservation ==
  (running = {}
     /\ (\A k \in 1..Len(history) : history[k].ret = "True"))
    => LET counted == {k \in 1..Len(history) : history[k].name_clean # Unknown}
       IN /\ SumOver(store, "total_analysis_count") = Cardinality(counted)
          /\ SumOver(store, "real_count") = Cardinality({k \in counted : history[k].real})
          /\ SumOver(store, "fake_count") = Cardinality({k \in counted : ~history[k].real})

\* same key, same document; different keys, different documents; and no two
\* documents with the same key: for the keys in the set keys
DedupFor(keys) ==
  /\ \A k1, k2 \in Saved :
       LET key1 == MatchKey(history[k1].name_clean)
           key2 == MatchKey(history[k2].name_clean)
       IN /\ (key1 = key2 /\ key1 \in keys) => history[k1].id = history[k2].id
          /\ key1 # key2 => history[k1].id # history[k2].id
  /\ \A i, j \in 1..Len(store) :
       (i # j /\ MatchKey(store[i].company_name) \in keys)
         => MatchKey(store[i].company_name) # MatchKey(store[j].company_name)

AllKeys == {MatchKey(history[k].name_clean) : k \in 1..Len(history)}
              \cup {MatchKey(d.company_name) : d \in Docs}

\* C5 as claimed: observations with equal keys are merged into the same
\* document, observations with different keys into different ones, and no two
\* documents have the same key, whatever the key.
DedupByKey == DedupFor(AllKeys)

\* C5: in calls made one at a time, observations with equal non-empty keys are
\* merged into the same document, observations with different keys into
\* different ones, and no two documents have the same non-empty key.
DedupByNonEmptyKey == DedupFor(AllKeys \ {<<>>})

\* two spellings with one key were merged into one document, beside another
DedupWitness ==
  /\ Len(store) >= 2
  /\ \E k1, k2 \in Saved :
       /\ history[k1].name_clean # history[k2].name_clean
       /\ MatchKey(history[k1].name_clean) = MatchKey(history[k2].name_clean)
       /\ history[k1].id = history[k2].id

\* the last call, made alone, returned True for name, with a document named
\* display_name in the store when it began
MergedInto(name, display_name) ==
  /\ history # <<>>
  /\ Last.ret = "True"
  /\ Last.name_clean = name
  /\ \E d \in {pre_store[i] : i \in 1..Len(pre_store)} : d.company_name = display_name

DocOf(docs, id) == CHOOSE d \in {docs[i] : i \in 1..Len(docs)} : d._id = id

FailureAtomicity ==
  (history # <<>> /\ (Last.raised \/ Last.ret = "False"))
    => /\ Last.raised
       /\ Last.ret = "False"
       /\ Last.id = 0
       /\ store = pre_store

\* the save of a merge into a stored document raised
FailureWitness ==
  /\ history # <<>>
  /\ Last.raised
  /\ last_at = "save"
  /\ \E d \in Docs : MatchKey(d.company_name) = MatchKey(Last.name_clean)

\* C8: a call (made alone) whose name normalizes to "unknown" returns True,
\* saves nothing and leaves the store as it was, however often it is repeated.
UnknownNoOp ==
  \A k \in 1..Len(history) :
    history[k].name_clean = Unknown
      => /\ history[k].ret = "True"
         /\ ~history[k].raised
         /\ history[k].id = 0
         /\ k = Len(history) => (last_at = "begin" /\ store = pre_store)
         /\ \A d \in Docs : d.company_name # Unknown

\* two calls with an unknown name in a row, on a store that holds a document
UnknownWitness ==
  /\ Len(history) >= 3
  /\ history[Len(history) - 1].name_clean = Unknown
  /\ Last.name_clean = Unknown
  /\ store # <<>>

\* C9: every stored document with total_analysis_count > 0 has a
\* fraud_percentage in [0, 100] that is fake_count / total_analysis_count * 100
\* rounded to two decimals (in hundredths: the integer nearest to
\* fake_count * 10000 / total_analysis_count).
FraudPercentageCorrect ==
  \A d \in Docs :
    d.total_analysis_count > 0
      => /\ d.fraud_percentage \in 0..10000
         /\ LET off == d.fraud_percentage * d.total_analysis_count - d.fake_count * 10000
            IN 2 * off <= d.total_analysis_count /\ -2 * off <= d.total_analysis_count

\* a percentage that was rounded up: 2 of 3 is 66.67
FraudPercentageWitness ==
  \E d \in Docs : d.fake_count = 2 /\ d.total_analysis_count = 3 /\ d.fraud_percentage = 6667

\* a website is known when it is not empty and not "unknown" in any case
KnownSite(w) == w # <<>> /\ Lower(w) # Unknown

\* C10: the company_website of every stored document is the most frequent
\* known website of its real entries, the one that appears first among several
\* most frequent, and "unknown" when no real entry has a known website.
WebsiteDerivation ==
  \A d \in Docs :
    LET e == d.real_internships.entries
        known == {i \in 1..Len(e) : KnownSite(e[i].website)}
        count(i) == Cardinality({k \in known : e[k].website = e[i].website})
    IN IF known = {} THEN d.company_website = Unknown
       ELSE \E i \in known :
              /\ d.company_website = e[i].website
              /\ \A j \in known : count(j) <= count(i)
              /\ \A j \in known : j < i => count(j) < count(i)

\* two known websites tie among the real entries, the first is chosen, and a
\* fake entry carries a third
WebsiteWitness ==
  \E d \in Docs :
    LET e == d.real_internships.entries
        f == d.fake_internships.entries
    IN /\ Len(e) = 2 /\ KnownSite(e[1].website) /\ KnownSite(e[2].website)
       /\ e[1].website # e[2].website
       /\ d.company_website = e[1].website
       /\ \E i \in 1..Len(f) : KnownSite(f[i].website) /\ f[i].website # e[1].website

\* C11: a merge (made alone) whose verdict is not REAL, into a document that
\* was in the store when the call began, leaves that document's
\* company_website, real_count, real entries and real patterns as they were.
FakeLeavesRealPart ==
  (history # <<>> /\ Last.ret = "True" /\ Last.id # 0 /\ ~Last.real)
    => \A i \in 1..Len(pre_store) :
         pre_store[i]._id = Last.id
           => /\ store[i].company_website = pre_store[i].company_website
              /\ store[i].real_count = pre_store[i].real_count
              /\ store[i].real_internships = pre_store[i].real_internships

\* the count equalities of C1 on one document
CountsAgree(d) ==
  /\ d.total_analysis_count = d.real_count + d.fake_count
  /\ d.real_count = Len(d.real_internships.entries)
  /\ d.fake_count = Len(d.fake_internships.entries)

\* the percentage of C9 on one document: fake_count of total_analysis_count,
\* to the nearest hundredth
PercentageAgrees(d) ==
  d.total_analysis_count > 0
    => /\ d.fraud_percentage \in 0..10000
       /\ LET off == d.fraud_percentage * d.total_analysis_count - d.fake_count * 10000
          IN 2 * off <= d.total_analysis_count /\ -2 * off <= d.total_analysis_count

\* the timestamps of the entries of a document
Stamps(d) ==
  {d.real_internships.entries[i].timestamp : i \in 1..Len(d.real_internships.entries)}
    \cup {d.fake_internships.entries[i].timestamp : i \in 1..Len(d.fake_internships.entries)}

\* C12: no torn read: every document an aggregation has read while calls of
\* update_company_stats were running is a document that a finished call saved,
\* with its counts agreeing with its entries and its fraud_percentage with its
\* counts; so the totals returned are those of whole documents.
NoTornRead ==
  /\ \A i \in 1..Len(query.companies) :
       LET d == query.companies[i]
       IN /\ \E k \in Saved : history[k].id = d._id
          /\ d.total_analysis_count >= 1
          /\ CountsAgree(d)
          /\ PercentageAgrees(d)
  /\ (query.pc = "done" /\ query.op = "compute_totals")
       => query.result.v.total_analyses
            = Len(EntriesOf(query.companies))
  /\ (query.pc = "done" /\ query.op = "top_fraud_companies" /\ query.args = <<>>)
       => \A i \in 1..Len(query.result.v) :
            /\ query.result.v[i].total_analysis_count >= 1
            /\ query.result.v[i].fraud_percentage \in 1..10000

\* an aggregation read a document before a call replaced it and another
\* document after a later call had saved it
TornReadWitness ==
  /\ query.pc = "done"
  /\ query.op = "compute_totals"
  /\ \E i, j \in 1..Len(query.companies) :
       /\ i < j
       /\ i <= Len(store)
       /\ \E t \in Stamps(store[i]) \ Stamps(query.companies[i]) :
            \E t2 \in Stamps(query.companies[j]) : t2 > t

\* what identity resolution finds for name in the store when the fuzzy pass
\* is made for the keys in the set keys: nothing for "unknown"; else the first
\* document whose name equals name without regard to case, as "exact"; else
\* the first document whose key equals that of name, as "fuzzy"; else nothing
ResolvedFor(keys) ==
  (query.pc = "done" /\ query.op = "_find_existing_company")
    => LET name == query.args[1]
           exact == {i \in 1..Len(store) : Lower(store[i].company_name) = Lower(name)}
           fuzzy == {i \in 1..Len(store) :
                       /\ MatchKey(name) \in keys
                       /\ MatchKey(store[i].company_name) = MatchKey(name)}
           none == query.result.t = "none" /\ query.result.v = <<>>
           found(S, kind) ==
             /\ query.result.t = kind
             /\ Len(query.result.v) = 1
             /\ \E i \in S :
                  /\ \A k \in S : i <= k
                  /\ query.result.v[1]._id = store[i]._id
                  /\ query.result.v[1].company_name = store[i].company_name
                  /\ kind = "exact" => query.result.v[1] = store[i]
       IN /\ Len(query.result.v) <= 1
          /\ IF name = Unknown THEN none
             ELSE IF exact # {} THEN found(exact, "exact")
             ELSE IF fuzzy # {} THEN found(fuzzy, "fuzzy")
             ELSE none

\* the keys of the names given and of the names stored
ResolverKeys ==
  {MatchKey(name) : name \in ResolverNames} \cup {MatchKey(d.company_name) : d \in Docs}

RecordLifecycle ==
  [][/\ Len(store') >= Len(store)
     /\ \A i \in 1..Len(store) :
          \E j \in 1..Len(store') :
            /\ store'[j]._id = store[i]._id
            /\ store'[j].company_name = store[i].company_name]_vars

\* a document took a merge under another spelling than its name, and later
\* one more merge
LifecycleWitness ==
  /\ store # <<>>
  /\ \E k1, k2 \in Saved :
       /\ k1 < k2
       /\ history[k1].id = history[k2].id
       /\ history[k1].match_type = "fuzzy"
       /\ history[k1].name_clean # DocOf(store, history[k1].id).company_name

\* C15: one merge touches one record: a step that changes the store is the
\* last step of a call that returns True, and it either appends one document,
\* the one the call saved, or replaces the one document the call resolved to;
\* every other document is left as it was.
OneWriteOneRecord ==
  [][store' # store
       => /\ Len(history') = Len(history) + 1
          /\ history'[Len(history')].ret = "True"
          /\ LET id == history'[Len(history')].id
             IN \/ /\ Len(store') = Len(store) + 1
                   /\ SubSeq(store', 1, Len(store)) = store
                   /\ store'[Len(store')]._id = id
                   /\ \A i \in 1..Len(store) : store[i]._id # id
                \/ /\ Len(store') = Len(store)
                   /\ \E i \in 1..Len(store) :
                        /\ store[i]._id = id
                        /\ store'[i]._id = id
                        /\ \A j \in 1..Len(store) : j # i => store'[j] = store[j]]_vars

\* a call replaced the first of several documents and left the others
OneRecordWitness ==
  /\ history # <<>>
  /\ Last.ret = "True"
  /\ Len(store) >= 2
  /\ Len(pre_store) = Len(store)
  /\ Last.id = store[1]._id
  /\ store[1] # pre_store[1]
  /\ \A j \in 2..Len(store) : store[j] = pre_store[j]

\* the sum of field over docs, a document without the field counting 0
TotalOf(docs, field) ==
  LET sum[i \in 0..Len(docs)] ==
        IF i = 0 THEN 0
        ELSE sum[i - 1] + (IF field \in DOMAIN docs[i] THEN docs[i][field] ELSE 0)
  IN sum[Len(docs)]

\* the records A (real 8, fake 2) and B (real 1, fake 9), in this order
IsAB(docs) ==
  /\ Len(docs) = 2
  /\ \A i \in 1..2 : {"company_name", "real_count", "fake_count"} \subseteq DOMAIN docs[i]
  /\ docs[1].company_name = <<"A">> /\ docs[1].real_count = 8 /\ docs[1].fake_count = 2
  /\ docs[2].company_name = <<"B">> /\ docs[2].real_count = 1 /\ docs[2].fake_count = 9

\* C16: compute_totals returns the sums of real_count and of fake_count over
\* the records, their sum as total_analyses, and as fraud_percentage the fake
\* share of the total in percent to the nearest hundredth, 0 without data; for
\* A and B: 9, 11, 20 and 55.0.
ComputeTotalsCorrect ==
  (query.pc = "done" /\ query.op = "compute_totals")
    => LET r == query.result.v
           real == TotalOf(query.companies, "real_count")
           fake == TotalOf(query.companies, "fake_count")
           off == r.fraud_percentage * (real + fake) - fake * 10000
       IN /\ query.result.t = "dict"
          /\ r.total_real = real
          /\ r.total_fake = fake
          /\ r.total_analyses = real + fake
          /\ real + fake = 0 => r.fraud_percentage = 0
          /\ real + fake > 0 => /\ r.fraud_percentage \in 0..10000
                                /\ 2 * off <= real + fake
                                /\ -2 * off <= real + fake
          /\ IsAB(query.companies)
               => r = [total_analyses |-> 20, total_real |-> 9, total_fake |-> 11,
                       fraud_percentage |-> 5500]

\* compute_totals has returned for the records A and B
ComputeTotalsWitness ==
  /\ query.pc = "done"
  /\ query.op = "compute_totals"
  /\ IsAB(query.companies)
  /\ query.result.v.fraud_percentage = 5500

\* the first n of the records with fraud_percentage > 0 in descending order
\* of fraud_percentage, equal ones in their original order: the k-th is the
\* record that has k - 1 such records before it in that order
IsTopFraud(result, docs, n) ==
  LET pct(i) == IF "fraud_percentage" \in DOMAIN docs[i] THEN docs[i].fraud_percentage ELSE 0
      F == {i \in 1..Len(docs) : pct(i) > 0}
      ahead(i) == {j \in F : pct(j) > pct(i) \/ (pct(j) = pct(i) /\ j < i)}
  IN /\ Len(result) = (IF Cardinality(F) < n THEN Cardinality(F) ELSE n)
     /\ \A k \in 1..Len(result) :
          /\ result[k].fraud_percentage > 0
          /\ \E i \in F :
               /\ Cardinality(ahead(i)) = k - 1
               /\ result[k].fraud_percentage = pct(i)
               /\ result[k].company_name
                    = (IF "company_name" \in DOMAIN docs[i] THEN docs[i].company_name
                       ELSE Unknown)
               /\ result[k].total_analysis_count
                    = (IF "total_analysis_count" \in DOMAIN docs[i]
                         THEN docs[i].total_analysis_count ELSE 0)

\* C17 as claimed: top_fraud_companies(n), n being 3 when not given, returns
\* the first n of the records with fraud_percentage > 0 in stable descending
\* order; top_fraud_companies(1) on A and B returns [B].
TopFraudByN ==
  (query.pc = "done" /\ query.op = "top_fraud_companies")
    => /\ query.result.t = "list"
       /\ IsTopFraud(query.result.v, query.companies,
                     IF query.args = <<>> THEN 3 ELSE query.args[1])

\* C17: top_fraud_companies(), called without argument, returns the first 3
\* of the records with fraud_percentage > 0 in descending order of
\* fraud_percentage, equal ones in their original order, and never a record
\* with fraud_percentage 0; on A and B it returns [B, A]. Called with an
\* argument it raises TypeError.
TopFraudFirstThree ==
  (query.pc = "done" /\ query.op = "top_fraud_companies")
    => IF query.args = <<>>
         THEN /\ query.result.t = "list"
              /\ IsTopFraud(query.result.v, query.companies, 3)
              /\ IsAB(query.companies)
                   => /\ Len(query.result.v) = 2
                      /\ query.result.v[1].company_name = <<"B">>
                      /\ query.result.v[2].company_name = <<"A">>
         ELSE query.result.t = "TypeError"

\* top_fraud_companies() has returned three of four records with
\* fraud_percentage > 0, two of them equal and in their original order
TopFraudWitness ==
  /\ query.pc = "done"
  /\ query.op = "top_fraud_companies"
  /\ query.args = <<>>
  /\ Len(query.companies) = 4
  /\ \A i \in 1..4 : "fraud_percentage" \in DOMAIN query.companies[i]
                       /\ query.companies[i].fraud_percentage > 0
  /\ Len(query.result.v) = 3
  /\ query.result.v[2].fraud_percentage = query.result.v[3].fraud_percentage
  /\ query.result.v[2].company_name = <<"D">>

\* the entries of one list (real_internships or fake_internships) of a record
EntriesIn(d, part) ==
  IF part \in DOMAIN d /\ "entries" \in DOMAIN d[part] THEN d[part].entries ELSE <<>>

\* the location is "remote" in any letter case between leading and trailing
\* white space
SaysRemote(e) ==
  /\ "location" \in DOMAIN e
  /\ \E a, b \in 0..Len(e.location) :
       /\ a + 6 + b = Len(e.location)
       /\ \A i \in 1..a : IsSpace(e.location[i])
       /\ \A i \in (a + 7)..Len(e.location) : IsSpace(e.location[i])
       /\ Lower(SubSeq(e.location, a + 1, a + 6)) = <<"r", "e", "m", "o", "t", "e">>

\* how many entries of the records are in the set of entries given by test
CountEntries(docs, test(_)) ==
  LET in(d, part) == Cardinality({k \in 1..Len(EntriesIn(d, part)) : test(EntriesIn(d, part)[k])})
      sum[i \in 0..Len(docs)] ==
        IF i = 0 THEN 0
        ELSE sum[i - 1] + in(docs[i], "real_internships") + in(docs[i], "fake_internships")
  IN sum[Len(docs)]

AnyEntry(e) == TRUE

\* C18: remote_vs_onsite counts every real and every fake entry of every
\* record once: as remote when its location, trimmed and lowercased, is
\* "remote", as onsite otherwise; remote + onsite is the number of entries,
\* and on a store left by calls of update_company_stats made one after the
\* other it is the total_analyses of compute_totals.
RemoteVsOnsiteCorrect ==
  (query.pc = "done" /\ query.op = "remote_vs_onsite")
    => LET r == query.result.v
       IN /\ query.result.t = "dict"
          /\ r.remote = CountEntries(query.companies, SaysRemote)
          /\ r.remote + r.onsite = CountEntries(query.companies, AnyEntry)
          /\ r.onsite >= 0
          /\ query.companies \in MergedStores
               => r.remote + r.onsite
                    = TotalOf(query.companies, "real_count")
                        + TotalOf(query.companies, "fake_count")

\* remote_vs_onsite has returned 2 and 2 for one record with the locations
\* "Remote", "remote ", "Hybrid" and "Austin, TX"
RemoteVsOnsiteWitness ==
  /\ query.pc = "done"
  /\ query.op = "remote_vs_onsite"
  /\ Len(query.companies) = 1
  /\ EntriesIn(query.companies[1], "real_internships")
       = << [location |-> <<"R", "e", "m", "o", "t", "e">>],
            [location |-> <<"r", "e", "m", "o", "t", "e", " ">>] >>
  /\ Len(EntriesIn(query.companies[1], "fake_internships")) = 2
  /\ query.result.v = [remote |-> 2, onsite |-> 2]

\* what each aggregation returns when it found no record
EmptyAggregation ==
  (query.pc = "done" /\ query.args = <<>> /\ query.companies = <<>>)
    => /\ query.op = "compute_totals"
            => /\ query.result.t = "dict"
               /\ query.result.v = [total_analyses |-> 0, total_real |-> 0,
                                    total_fake |-> 0, fraud_percentage |-> 0]
       /\ query.op = "compute_pie_chart"
            => /\ query.result.t = "dict"
               /\ query.result.v.values = <<0, 0>>
       /\ query.op = "top_fraud_companies"
            => /\ query.result.t = "list"
               /\ query.result.v = <<>>
       /\ query.op = "remote_vs_onsite"
            => /\ query.result.t = "dict"
               /\ query.result.v = [remote |-> 0, onsite |-> 0]

\* C19: an aggregation that finds no record returns zeros (compute_totals,
\* with fraud_percentage 0), values [0, 0] (compute_pie_chart), an empty list
\* (top_fraud_companies) or remote 0, onsite 0 (remote_vs_onsite) and does not
\* fail; and no step of an aggregation changes the store.
EmptyAggregationNeverFails ==
  /\ []EmptyAggregation
  /\ [][query' # query => store' = store]_vars

\* compute_pie_chart has returned for an empty collection
EmptyAggregationWitness ==
  /\ query.pc = "done"
  /\ query.op = "compute_pie_chart"
  /\ query.companies = <<>>
  /\ store = <<>>
  /\ query.result.v.values = <<0, 0>>

\* the document with _id id as it was when the last call began; a document
\* with no observation yet when there was none
Before(id) ==
  IF \E i \in 1..Len(pre_store) : pre_store[i]._id = id
    THEN DocOf(pre_store, id)
    ELSE [real_count |-> 0, fake_count |-> 0,
          real_internships |-> EmptyInternships, fake_internships |-> EmptyInternships]

\* C20: verdict routing: a call (made alone) that returned True for a name
\* that is not "unknown" has appended one entry to the real entries and added
\* 1 to real_count when the verdict starts with "REAL", to the fake entries
\* and fake_count otherwise, and has left the other list and counter as they
\* were; a missing verdict, confidence or pattern list raises nothing.
VerdictRouting ==
  (history # <<>> /\ Last.ret = "True" /\ Last.name_clean # Unknown)
    => /\ ~Last.raised
       /\ Last.id # 0
       /\ LET post == DocOf(store, Last.id)
              pre == Before(Last.id)
              grown(after, before) ==
                /\ Len(after) = Len(before) + 1
                /\ SubSeq(after, 1, Len(before)) = before
          IN IF Last.real
               THEN /\ post.real_count = pre.real_count + 1
                    /\ grown(post.real_internships.entries, pre.real_internships.entries)
                    /\ post.fake_count = pre.fake_count
                    /\ post.fake_internships.entries = pre.fake_internships.entries
               ELSE /\ post.fake_count = pre.fake_count + 1
                    /\ grown(post.fake_internships.entries, pre.fake_internships.entries)
                    /\ post.real_count = pre.real_count
                    /\ post.real_internships.entries = pre.real_internships.entries

\* before is a prefix of after
IsPrefix(before, after) ==
  /\ Len(before) <= Len(after)
  /\ SubSeq(after, 1, Len(before)) = before

\* C21: entries are append-only: at every step, every record of the store is
\* still there under its _id, and its real entries and fake entries as they
\* were stored are prefixes of its real entries and fake entries afterwards.
EntriesAppendOnly ==
  [][\A i \in 1..Len(store) :
       /\ i <= Len(store')
       /\ store'[i]._id = store[i]._id
       /\ IsPrefix(store[i].real_internships.entries,
                   store'[i].real_internships.entries)
       /\ IsPrefix(store[i].fake_internships.entries,
                   store'[i].fake_internships.entries)]_vars

\* the document with _id id among docs; a document with no observation yet
\* when there is none
StoredOr(docs, id) ==
  IF \E i \in 1..Len(docs) : docs[i]._id = id
    THEN DocOf(docs, id)
    ELSE [real_count |-> 0, fake_count |-> 0,
          real_internships |-> EmptyInternships, fake_internships |-> EmptyInternships]

\* the position at which p is first seen in the list ps
FirstSeen(ps, p) == FirstIndex({k \in 1..Len(ps) : ps[k] = p})

\* after is before followed by the patterns of ps that before lacks, each
\* once, in the order in which ps first shows them
PatternsAdded(before, after, ps) ==
  /\ IsPrefix(before, after)
  /\ \A a, b \in 1..Len(after) : a # b => after[a] # after[b]
  /\ {after[k] : k \in (Len(before) + 1)..Len(after)}
       = {ps[k] : k \in 1..Len(ps)} \ {before[k] : k \in 1..Len(before)}
  /\ \A a, b \in (Len(before) + 1)..Len(after) :
       a < b => FirstSeen(ps, after[a]) < FirstSeen(ps, after[b])

\* C22: pattern merge: at every write of a call made alone, the pattern list
\* of the call's verdict in the written record has no duplicates, begins with
\* the patterns stored before in their order and ends with the observation's
\* patterns not yet stored, each once, in first-seen order; the pattern list
\* of the other verdict is as it was; a missing or empty pattern list leaves
\* both lists as they were.
PatternMerge ==
  [][store' # store =>
       \A c \in running :
         LET id == history'[Len(history')].id
             pre == StoredOr(store, id)
             post == DocOf(store', id)
             ps == IF c.obs.patterns.t = "list" THEN c.obs.patterns.v ELSE <<>>
         IN IF IsReal(c.obs.result)
              THEN /\ PatternsAdded(pre.real_internships.pattern_matches,
                                    post.real_internships.pattern_matches, ps)
                   /\ post.fake_internships.pattern_matches
                        = pre.fake_internships.pattern_matches
              ELSE /\ PatternsAdded(pre.fake_internships.pattern_matches,
                                    post.fake_internships.pattern_matches, ps)
                   /\ post.real_internships.pattern_matches
                        = pre.real_internships.pattern_matches]_vars

\* the legal-suffix words, lower-cased ("Pvt Ltd" ends with "ltd" and
\* "Private Limited" with "limited")
LegalSuffixWords ==
  { <<"l", "l", "c">>, <<"i", "n", "c">>, <<"l", "t", "d">>, <<"c", "o">>,
    <<"c", "o", "r", "p", "o", "r", "a", "t", "i", "o", "n">>,
    <<"l", "i", "m", "i", "t", "e", "d">> }

\* name has a word and then, as its last word, a legal-suffix word in any
\* letter case (a name that is nothing but such a word has no suffix)
EndsWithLegalSuffix(name) ==
  LET parts == Split(name)
  IN Len(parts) >= 2 /\ Lower(parts[Len(parts)]) \in LegalSuffixWords

\* C23: display names have legal suffixes stripped: what
\* _standardize_company_name returns does not end with a legal-suffix word,
\* and no record of the store has a display name that ends with one.
NoLegalSuffix ==
  /\ query.op = "_standardize_company_name" => ~EndsWithLegalSuffix(query.result.v)
  /\ \A i \in 1..Len(store) : ~EndsWithLegalSuffix(store[i].company_name)

\* C24: normalizer result shape: _standardize_company_name returns "unknown"
\* or a non-empty name of at most 4 whitespace-separated words that is not,
\* in any letter case, a blacklisted placeholder; an input that is not a
\* string or is empty gives "unknown"; and no record of the store has the
\* display name "unknown" or a blacklisted one.
NormalizerShape ==
  /\ query.op = "_standardize_company_name"
       => \/ query.result.v = Unknown
          \/ /\ query.result.v # <<>>
             /\ Len(Split(query.result.v)) \in 1..4
             /\ Lower(query.result.v) \notin invalid_names
  /\ (query.op = "_standardize_company_name"
        /\ (query.args[1].t # "str" \/ query.args[1].v = <<>>))
       => query.result = PyStr(Unknown)
  /\ \A i \in 1..Len(store) :
       /\ store[i].company_name # <<>>
       /\ Lower(store[i].company_name) \notin invalid_names

\* a raw name of more than 4 words was cut to 4
NormalizerShapeWitness ==
  /\ query.op = "_standardize_company_name"
  /\ query.pos = 1
  /\ query.args[1].t = "str"
  /\ Len(Split(query.args[1].v)) > 4
  /\ Len(Split(query.result.v)) = 4

\* raw, lower-cased, contains the word
Mentions(raw, word) == Contains(Lower(raw), word)

\* C25: location classification order: for a non-empty string, "Remote" and
\* "Hybrid" themselves are returned unchanged; otherwise a string that
\* contains a remote keyword in any letter case gives "Remote", also when it
\* contains "hybrid"; otherwise one that contains "hybrid" gives "Hybrid";
\* otherwise the string is returned trimmed.
LocationOrder ==
  (query.op = "_normalize_location" /\ query.args[1].t = "str" /\ query.args[1].v # <<>>)
    => LET raw == query.args[1].v
           loc == query.result.v
       IN IF raw \in {<<"R", "e", "m", "o", "t", "e">>, <<"H", "y", "b", "r", "i", "d">>}
            THEN loc = raw
          ELSE IF \E keyword \in remote_keywords : Mentions(raw, keyword)
            THEN loc = <<"R", "e", "m", "o", "t", "e">>
          ELSE IF Mentions(raw, <<"h", "y", "b", "r", "i", "d">>)
            THEN loc = <<"H", "y", "b", "r", "i", "d">>
          ELSE loc = Strip(raw)

\* a location that names both was classified as Remote
LocationOrderWitness ==
  /\ query.op = "_normalize_location"
  /\ query.args[1].t = "str"
  /\ Mentions(query.args[1].v, <<"h", "y", "b", "r", "i", "d">>)
  /\ Mentions(query.args[1].v, <<"r", "e", "m", "o", "t", "e">>)
  /\ query.result.v = <<"R", "e", "m", "o", "t", "e">>

\* C26: location classifier range: _normalize_location returns "Remote",
\* "Hybrid", "unknown" or a non-empty location without whitespace around it;
\* an input that is empty, only whitespace or not a string gives "unknown";
\* and no entry of the store has an empty location.
LocationRange ==
  /\ query.op = "_normalize_location"
       => /\ query.result.v # <<>>
          /\ query.result.v = Strip(query.result.v)
          /\ (query.args[1].t # "str" \/ Strip(query.args[1].v) = <<>>)
               => query.result.v = Unknown
  /\ \A i \in 1..Len(store) :
       \A part \in {"real_internships", "fake_internships"} :
         \A k \in 1..Len(store[i][part].entries) :
           store[i][part].entries[k].location # <<>>

\* the statistics of a store: the number of records and, for each record, its
\* company key with its counts and percentage
Statistics(docs) ==
  [records |-> Len(docs),
   per_key |-> { [key |-> MatchKey(docs[i].company_name),
                  real_count |-> docs[i].real_count,
                  fake_count |-> docs[i].fake_count,
                  total_analysis_count |-> docs[i].total_analysis_count,
                  fraud_percentage |-> docs[i].fraud_percentage] :
                 i \in 1..Len(docs) }]

\* C27: order independence of the statistics: a collection of observations
\* merged one at a time into an empty store leaves, in every order, the same
\* number of records and per company key the same real_count, fake_count,
\* total_analysis_count and fraud_percentage.
OrderIndependence ==
  query.op = "update_company_stats"
    => Statistics(store) = Statistics(query.companies)

\* C28: normalization is idempotent: _standardize_company_name called with a
\* name it returned returns that name, and an observation named as a record
\* of the store resolves to that record by the exact pass.
NormalizeIdempotent ==
  /\ (query.op = "_standardize_company_name" /\ query.pos = 2)
       => query.result.v = query.args[1].v
  /\ (Len(history) = 2 /\ history[1].id # 0)
       => /\ Last.match_type = "exact"
          /\ Last.id = history[1].id
          /\ Len(store) = 1

\* the structure create_dashboard returned agrees with itself: the pie chart
\* shows the totals, and remote and onsite add up to the analyses
SelfConsistent(dashboard) ==
  /\ dashboard.pie_chart.values
       = <<dashboard.totals.total_real, dashboard.totals.total_fake>>
  /\ dashboard.location_stats.remote + dashboard.location_stats.onsite
       = dashboard.totals.total_analyses

\* create_dashboard has returned
DashboardReturned == query.op = "create_dashboard" /\ query.pc = "done"

\* C29 as claimed: dashboard self-consistency: the structure create_dashboard
\* returns agrees with itself in every execution, also when merges are made
\* while it runs.
DashboardConsistent == DashboardReturned => SelfConsistent(query.result.v)

\* C29: dashboard self-consistency: when no merge wrote to the store between
\* the call of create_dashboard and its return, the structure returned
\* agrees with itself.
DashboardConsistentWhenQuiet ==
  (DashboardReturned /\ query.began = clock) => SelfConsistent(query.result.v)

\* create_dashboard ran on a store of several records with real and fake
\* observations, and no merge wrote meanwhile
DashboardWitness ==
  /\ DashboardReturned
  /\ query.began = clock
  /\ Len(store) >= 2
  /\ query.result.v.totals.total_real >= 1
  /\ query.result.v.totals.total_fake >= 1
  /\ query.result.v.location_stats.remote >= 1
  /\ query.result.v.location_stats.onsite >= 1

\* C30: verification chain integrity: after any calls of verify_job_posting
\* and verify_company_credentials on a fresh BlockchainVerification, with no
\* other change of the chain, verify_chain_integrity() returns True.
ChainIntegrity ==
  query.op = "verify_chain_integrity" => query.result.v = TRUE

=============================================================================
